---- MODULE Spec2Model ----
(***************************************************************************)
(* trajtracker: the sliding speed window (movement.SpeedMonitor), the      *)
(* validator built on it (validators.InstantaneousSpeedValidator), the     *)
(* gradient validator (validators.MoveByGradientValidator) and the number  *)
(* line's touch detection (stimuli.NumberLine).                            *)
(*                                                                         *)
(* One object is looked at in a behaviour: `component` names it, and the   *)
(* variables of the other objects stay at their idle values.               *)
(*                                                                         *)
(* Numbers.  Times and raw coordinates are integers.  A coordinate in mm   *)
(* is the exact rational  raw / units_per_mm : a stored sample keeps the   *)
(* numerator, the denominator is units_per_mm (given at construction).     *)
(* A step distance  sqrt(dx^2 + dy^2) / units_per_mm  is kept as the       *)
(* numerator  ISqrt((dx^2 + dy^2) * DistScale^2)  over the denominator     *)
(* DistScale * units_per_mm  (the square root truncated to 1/DistScale).   *)
(* A speed is a rational [num, den] with den > 0, or one of the values a   *)
(* division by a zero interval produces.                                   *)
(***************************************************************************)
EXTENDS Integers, Sequences, FiniteSets

\* ---------------------------------------------------------------- bounds
MaxX == 1
MaxY == 3
MaxTime == 2
MaxPushes == 3
DistScale == 100

Xs == 0..MaxX
Ys == 0..MaxY
Times == 0..MaxTime

\* configuration values the callers choose from
UnitsPerMmValues == {2}
IntervalValues == {0, 2}
GraceValues == {0, 1}
MinSpeedValues == {1, 2}
MaxSpeedValues == {1}

\* ------------------------------------------------------- optional values
\* Python's None and a present value v
None == <<>>
Some(v) == <<v>>
Val(o) == o[1]

\* the trial start times given to reset
ResetTimes == {None, Some(0)}

Abs(i) == IF i < 0 THEN -i ELSE i

RECURSIVE ISqrtBetween(_, _, _)
ISqrtBetween(v, lo, hi) ==
    IF lo >= hi THEN lo
    ELSE LET mid == (lo + hi + 1) \div 2
         IN  IF mid * mid <= v THEN ISqrtBetween(v, mid, hi)
                               ELSE ISqrtBetween(v, lo, mid - 1)

\* floor of the square root of a natural number below 2^31
ISqrt(v) == ISqrtBetween(v, 0, IF v < 46340 THEN v ELSE 46340)

RECURSIVE SumDist(_)
SumDist(points) ==
    IF points = <<>> THEN 0 ELSE Head(points).d + SumDist(Tail(points))

\* ------------------------------------------------------------------ state
VARIABLES
    units_per_mm,          \* SpeedMonitor._units_per_mm
    calculation_interval,  \* SpeedMonitor._calculation_interval
    recent_points,         \* SpeedMonitor._recent_points: samples [x, y, t, d, n]
    pre_recent_point,      \* SpeedMonitor._pre_recent_point: None or Some(sample)
    time0,                 \* SpeedMonitor._time0: None or Some(time)
    enabled,               \* InstantaneousSpeedValidator._enabled
    axis,                  \* InstantaneousSpeedValidator._axis
    min_speed,             \* InstantaneousSpeedValidator._min_speed: None or Some(v)
    max_speed,             \* InstantaneousSpeedValidator._max_speed: None or Some(v)
    grace_period,          \* InstantaneousSpeedValidator._grace_period
    interval_changed,      \* history: calculation_interval was changed since the last reset
    last,                  \* the last call: what it was, what it raised, what it returned
    component,             \* the object the calls are made on
    rgb_should_ascend,     \* MoveByGradientValidator._rgb_should_ascend
    max_valid_back_movement, \* MoveByGradientValidator._max_valid_back_movement
    cyclic,                \* MoveByGradientValidator._cyclic
    available_colors,      \* MoveByGradientValidator._lcm.available_colors, as numbers
    colors_calculated,     \* _min_available_color and _max_available_color exist
    min_available_color,   \* MoveByGradientValidator._min_available_color: None or Some(c)
    max_available_color,   \* MoveByGradientValidator._max_available_color: None or Some(c)
    last_color,            \* MoveByGradientValidator._last_color: None or Some(c)
    seen,                  \* history: the color the last update found, the one remembered
                           \* before it and the color the update before it found
    orientation,           \* NumberLine._orientation
    mid_x,                 \* NumberLine._mid_x
    mid_y,                 \* NumberLine._mid_y
    touch_directioned,     \* NumberLine._touch_directioned
    touch_distance,        \* NumberLine._touch_distance
    feedback_stim,         \* NumberLine._feedback_stim: None or Some([position, visible])
    feedback_stim_offset,  \* NumberLine._feedback_stim_offset
    last_mouse_coord,      \* NumberLine._last_mouse_coord
    last_touched_coord,    \* NumberLine._last_touched_coord: None or Some(coord)
    initial_mouse_dir,     \* NumberLine._initial_mouse_dir: None or Some(sign)
    mouse,                 \* history: the last sample [x, y], the number n of samples since
                           \* reset and whether one of them was found to touch the line
    preloaded,             \* NumberLine._preloaded
    line_length,           \* NumberLine._line_length
    line_width,            \* NumberLine._line_width
    line_colour,           \* NumberLine._line_colour: None or Some(colour)
    end_tick_height,       \* NumberLine._end_tick_height: None or Some(height)
    min_value,             \* NumberLine._min_value
    max_value,             \* NumberLine._max_value
    trajectory_sensitive_objects, \* ExperimentInfo._trajectory_sensitive_objects
    pc,                    \* run_trials: the place the trial loop is at
    trials_run,            \* run_trials: the number of calls of run_trial
    trace,                 \* history: the calls made in the current trial, in order
    stale,                 \* history: the objects updated since their last reset
    operations,            \* the scheduler's table of operations, in registration order
    clock,                 \* the scheduler's clock, in ticks
    occurred,              \* history: the number of notifications of each event
    invoked,               \* history: the actions invoked, in order: [id, time, step]
    onset_time,            \* BaseRSVPStim._onset_time, in ticks
    duration,              \* BaseRSVPStim._duration, in ticks, one per stimulus
    last_stimulus_remains, \* BaseRSVPStim._last_stimulus_remains
    start_rsvp_event,      \* BaseRSVPStim._start_rsvp_event: None or Some(event)
    terminate_rsvp_event,  \* BaseRSVPStim._terminate_rsvp_event: None or Some(event)
    stimuli,               \* RSVPText._stimuli: the visible flag of each text box
    registered_ops,        \* RSVPText._registered_ops
    show_hide_operations,  \* RSVPText._show_hide_operations: None (not assigned yet) or
                           \* Some(list of <<time, visible, stim_num>>)
    start_showing_time,    \* RSVPText._start_showing_time: None or Some(time)
    applied,               \* history: the show/hide operations applied since init_for_trial
    trials,                \* ExperimentInfo.trials: the queue of trial configurations
    shuffle_trials,        \* Config.shuffle_trials
    trial_config,          \* run_trials: None, or Some(configuration popped from the queue)
    trial_num,             \* run_trials: trial_num
    exp_data,              \* ExperimentInfo.exp_data: nTrialsCompleted, nTrialsSucceeded,
                           \* nTrialsFailed
    run_trials_pc,         \* run_trials: "loop", "run_trial" or "returned"
    run_trial_rc,          \* run_trials: run_trial_rc, None while no trial has returned
    history                \* history: the trials run, in order: [trial_num, config, rc]

smVars == <<units_per_mm, calculation_interval, recent_points, pre_recent_point, time0>>
cfgVars == <<enabled, axis, min_speed, max_speed, grace_period>>
gradientCfgVars == <<rgb_should_ascend, max_valid_back_movement, cyclic, available_colors>>
gradientVars == <<rgb_should_ascend, max_valid_back_movement, cyclic, available_colors,
                  colors_calculated, min_available_color, max_available_color,
                  last_color, seen>>
lineLookVars == <<preloaded, line_length, line_width, line_colour, end_tick_height,
                  min_value, max_value>>
lineCfgVars == <<orientation, mid_x, mid_y, touch_directioned, touch_distance,
                 feedback_stim_offset, lineLookVars>>
lineVars == <<orientation, mid_x, mid_y, touch_directioned, touch_distance,
              feedback_stim, feedback_stim_offset, last_mouse_coord,
              last_touched_coord, initial_mouse_dir, mouse, lineLookVars>>
runVars == <<trajectory_sensitive_objects, pc, trials_run, trace, stale>>
schedVars == <<operations, clock, occurred, invoked>>
rsvpCfgVars == <<onset_time, duration, last_stimulus_remains, start_rsvp_event,
                 terminate_rsvp_event>>
rsvpVars == <<rsvpCfgVars, stimuli, registered_ops, show_hide_operations,
              start_showing_time, applied>>
queueVars == <<trials, shuffle_trials, trial_config, trial_num, exp_data, run_trials_pc,
               history>>
trialsVars == <<queueVars, run_trial_rc>>
timelineVars == <<runVars, schedVars, rsvpVars, trialsVars>>
vars == <<units_per_mm, calculation_interval, recent_points, pre_recent_point, time0,
          enabled, axis, min_speed, max_speed, grace_period, interval_changed, last,
          component, gradientVars, lineVars, timelineVars>>

ValidationAxis == {"x", "y", "xy"}

err_too_slow == "TooSlowInstantaneous"
err_too_fast == "TooFast"

\* ------------------------------------------------------------ SpeedMonitor

\* the time update_xyt compares the new time with
PrevTime(points, t0) ==
    IF Len(points) > 0 THEN Some(points[Len(points)].t) ELSE t0

\* mutant of ValidateTimeRaises: an equal time is rejected too
ValidateTimeRaisesOnEqual(points, t0, time) ==
    LET prev_time == PrevTime(points, t0)
    IN  prev_time # None /\ Val(prev_time) >= time

\* _validate_time: TRUE when InvalidStateError is raised
ValidateTimeRaises(points, t0, time) ==
    LET prev_time == PrevTime(points, t0)
    IN  prev_time # None /\ Val(prev_time) > time

\* the indices np.where finds in _remove_recent_points_older_than
OlderThanThreshold(points, latest_good_time) ==
    {i \in 1..Len(points) : points[i].t <= latest_good_time}

SetMax(S) == CHOOSE i \in S : \A j \in S : j <= i

\* mutant of RemoveRecentPointsOlderThan: remembers the oldest removed point
RemoveRemembersOldest(points, pre, latest_good_time) ==
    LET older_than_threshold == OlderThanThreshold(points, latest_good_time)
    IN  IF Cardinality(older_than_threshold) >= 1
        THEN LET k == SetMax(older_than_threshold)
             IN  <<Some(points[1]), SubSeq(points, k + 1, Len(points))>>
        ELSE <<pre, points>>

\* mutant of RemoveRecentPointsOlderThan: remembers a point although none was removed
RemoveAlwaysRemembers(points, pre, latest_good_time) ==
    LET older_than_threshold == OlderThanThreshold(points, latest_good_time)
    IN  IF Cardinality(older_than_threshold) >= 1
        THEN LET k == SetMax(older_than_threshold)
             IN  <<Some(points[k]), SubSeq(points, k + 1, Len(points))>>
        ELSE IF Len(points) > 0 /\ pre = None THEN <<Some(points[1]), points>>
        ELSE <<pre, points>>

\* _remove_recent_points_older_than: the new <<_pre_recent_point, _recent_points>>
RemoveRecentPointsOlderThan(points, pre, latest_good_time) ==
    LET older_than_threshold == OlderThanThreshold(points, latest_good_time)
    IN  IF Cardinality(older_than_threshold) >= 1
        THEN LET k == SetMax(older_than_threshold)
             IN  <<Some(points[k]), SubSeq(points, k + 1, Len(points))>>
        ELSE <<pre, points>>

\* np.sqrt of every squared raw distance two samples can have, times DistScale
SqrtTable == [v \in 0..(MaxX * MaxX + MaxY * MaxY) |-> ISqrt(v * DistScale * DistScale)]

\* mutant of Distance: the y difference is left out
DistanceXOnly(points, x, y) ==
    IF Len(points) > 0
    THEN LET last_loc == points[Len(points)]
         IN  SqrtTable[(x - last_loc.x) * (x - last_loc.x)]
    ELSE 0

\* the distance to the most recent coordinate, over DistScale * units_per_mm
Distance(points, x, y) ==
    IF Len(points) > 0
    THEN LET last_loc == points[Len(points)]
         IN  SqrtTable[(x - last_loc.x) * (x - last_loc.x) + (y - last_loc.y) * (y - last_loc.y)]
    ELSE 0

\* the ordinal of the next pushed sample since the last reset (history field n)
NextOrdinal(points, pre) ==
    IF Len(points) > 0 THEN points[Len(points)].n + 1
    ELSE IF pre # None THEN Val(pre).n + 1 ELSE 1

\* mutant of MonitorUpdate: the new sample is appended before the old ones are removed
MonitorUpdateAppendFirst(points, pre, t0, interval, x, y, time) ==
    LET new_t0 == IF t0 = None THEN Some(time) ELSE t0
        sample == [x |-> x, y |-> y, t |-> time, d |-> Distance(points, x, y),
                   n |-> NextOrdinal(points, pre)]
        kept == RemoveRecentPointsOlderThan(Append(points, sample), pre, time - interval)
    IN  <<kept[1], kept[2], new_t0>>

\* mutant of MonitorUpdate: the calculation interval is not subtracted
MonitorUpdateIgnoresInterval(points, pre, t0, interval, x, y, time) ==
    LET new_t0 == IF t0 = None THEN Some(time) ELSE t0
        kept == RemoveRecentPointsOlderThan(points, pre, time)
        sample == [x |-> x, y |-> y, t |-> time, d |-> Distance(points, x, y),
                   n |-> NextOrdinal(points, pre)]
    IN  <<kept[1], Append(kept[2], sample), new_t0>>

\* mutant of MonitorUpdate: the trial starts at the first sample, whatever reset was given
MonitorUpdateStartsAtFirstSample(points, pre, t0, interval, x, y, time) ==
    LET new_t0 == IF points = <<>> /\ pre = None THEN Some(time) ELSE t0
        distance == Distance(points, x, y)
        kept == RemoveRecentPointsOlderThan(points, pre, time - interval)
        sample == [x |-> x, y |-> y, t |-> time, d |-> distance,
                   n |-> NextOrdinal(points, pre)]
    IN  <<kept[1], Append(kept[2], sample), new_t0>>

\* SpeedMonitor.update_xyt, after _validate_time let it pass:
\* the new <<_pre_recent_point, _recent_points, _time0>>
MonitorUpdate(points, pre, t0, interval, x, y, time) ==
    LET new_t0 == IF t0 = None THEN Some(time) ELSE t0
        distance == Distance(points, x, y)
        kept == RemoveRecentPointsOlderThan(points, pre, time - interval)
        sample == [x |-> x, y |-> y, t |-> time, d |-> distance,
                   n |-> NextOrdinal(points, pre)]
    IN  <<kept[1], Append(kept[2], sample), new_t0>>

\* SpeedMonitor.time_in_trial
TimeInTrial(points, t0) ==
    IF t0 = None \/ Len(points) = 0 THEN None
    ELSE Some(points[Len(points)].t - Val(t0))

\* mutant of LastCalculationInterval: needs two samples in the window
LastCalculationIntervalNeedsTwo(points, pre) ==
    IF pre = None \/ Len(points) < 2 THEN None
    ELSE Some(points[Len(points)].t - Val(pre).t)

\* SpeedMonitor.last_calculation_interval
LastCalculationInterval(points, pre) ==
    IF pre = None THEN None
    ELSE Some(points[Len(points)].t - Val(pre).t)

\* The outcome of a division: Python raises ZeroDivisionError when a Python
\* number is divided by zero; a numpy float divided by zero gives inf or nan.
Rat(n, d) == [kind |-> "num", num |-> n, den |-> d]
PyDiv(n, d) == IF d = 0 THEN [kind |-> "ZeroDivisionError", num |-> 0, den |-> 1]
               ELSE Rat(n, d)
NpDiv(n, d) == IF d # 0 THEN Rat(n, d)
               ELSE IF n = 0 THEN [kind |-> "nan", num |-> 0, den |-> 1]
               ELSE [kind |-> "inf", num |-> 0, den |-> 1]

\* mutant of XSpeed: reads the y coordinates
XSpeedFromY(points, pre, upm) ==
    IF pre = None THEN None
    ELSE Some(PyDiv(points[Len(points)].y - Val(pre).y,
                    upm * Val(LastCalculationInterval(points, pre))))

\* SpeedMonitor.xspeed (mm/sec)
XSpeed(points, pre, upm) ==
    IF pre = None THEN None
    ELSE Some(PyDiv(points[Len(points)].x - Val(pre).x,
                    upm * Val(LastCalculationInterval(points, pre))))

\* SpeedMonitor.yspeed (mm/sec)
YSpeed(points, pre, upm) ==
    IF pre = None THEN None
    ELSE Some(PyDiv(points[Len(points)].y - Val(pre).y,
                    upm * Val(LastCalculationInterval(points, pre))))

\* SpeedMonitor.xyspeed (mm/sec): the distances are numpy floats
XYSpeed(points, pre, upm) ==
    IF pre = None THEN None
    ELSE Some(NpDiv(SumDist(points),
                    DistScale * upm * Val(LastCalculationInterval(points, pre))))

\* ------------------------------------------------------ speed comparisons
\* speed < bound and speed > bound for a numeric bound, as Python compares floats
SpeedLess(s, bound) ==
    /\ s.kind = "num"
    /\ s.num < bound * s.den

SpeedGreater(s, bound) ==
    \/ s.kind = "inf"
    \/ s.kind = "num" /\ s.num > bound * s.den

\* ---------------------------------------------- InstantaneousSpeedValidator

\* the speed update_xyt selects by the axis (the axis setter admits only
\* the three members of ValidationAxis)
AxisSpeed(ax, points, pre, upm) ==
    IF ax = "x" THEN Val(XSpeed(points, pre, upm))
    ELSE IF ax = "y" THEN Val(YSpeed(points, pre, upm))
    ELSE Val(XYSpeed(points, pre, upm))

ExperimentError(code, speed) == Some([err_code |-> code, speed |-> speed])

\* mutant of Validate: the grace period ends one comparison too early
ValidateGraceInclusive(points, pre, t0, upm, ax, mn, mx, grace) ==
    LET tit == TimeInTrial(points, t0)
    IN  IF tit # None /\ Val(tit) >= grace /\ LastCalculationInterval(points, pre) # None
        THEN LET speed == AxisSpeed(ax, points, pre, upm)
             IN  IF speed.kind = "ZeroDivisionError"
                 THEN [raised |-> "ZeroDivisionError", ret |-> None]
                 ELSE IF mn # None /\ SpeedLess(speed, Val(mn))
                 THEN [raised |-> "none", ret |-> ExperimentError(err_too_slow, speed)]
                 ELSE IF mx # None /\ SpeedGreater(speed, Val(mx))
                 THEN [raised |-> "none", ret |-> ExperimentError(err_too_fast, speed)]
                 ELSE [raised |-> "none", ret |-> None]
        ELSE [raised |-> "none", ret |-> None]

\* the part of update_xyt after the speed monitor was updated:
\* [raised, ret] for the monitor state points, pre, t0
Validate(points, pre, t0, upm, ax, mn, mx, grace) ==
    LET tit == TimeInTrial(points, t0)
    IN  IF tit # None /\ Val(tit) > grace /\ LastCalculationInterval(points, pre) # None
        THEN LET speed == AxisSpeed(ax, points, pre, upm)
             IN  IF speed.kind = "ZeroDivisionError"
                 THEN [raised |-> "ZeroDivisionError", ret |-> None]
                 ELSE IF mn # None /\ SpeedLess(speed, Val(mn))
                 THEN [raised |-> "none", ret |-> ExperimentError(err_too_slow, speed)]
                 ELSE IF mx # None /\ SpeedGreater(speed, Val(mx))
                 THEN [raised |-> "none", ret |-> ExperimentError(err_too_fast, speed)]
                 ELSE [raised |-> "none", ret |-> None]
        ELSE [raised |-> "none", ret |-> None]

Call(op, t, raised, ret) == [op |-> op, t |-> t, raised |-> raised, ret |-> ret]

\* -------------------------------------------------- the objects not looked at

\* a speed validator that is not looked at
SpeedIdle ==
    /\ units_per_mm \in UnitsPerMmValues
    /\ calculation_interval = 0
    /\ recent_points = <<>>
    /\ pre_recent_point = None
    /\ time0 = None
    /\ axis = "xy"
    /\ min_speed = None
    /\ max_speed = None
    /\ grace_period = 0
    /\ interval_changed = FALSE

NoColorSeen == [color |-> None, remembered |-> None, before |-> None]

\* a gradient validator that is not looked at
GradientIdle ==
    /\ rgb_should_ascend = TRUE
    /\ max_valid_back_movement = 0
    /\ cyclic = FALSE
    /\ available_colors = {}
    /\ colors_calculated = FALSE
    /\ min_available_color = None
    /\ max_available_color = None
    /\ last_color = None
    /\ seen = NoColorSeen

NoMouse == [x |-> 0, y |-> 0, n |-> 0, touched |-> FALSE]

\* NumberLine(position, line_length = 4, max_value = 100): the defaults of
\* __init__ for min_value, line_width, line_colour and end_tick_height
LineDefaults ==
    /\ preloaded = FALSE
    /\ line_length = 4
    /\ line_width = 1
    /\ line_colour = None
    /\ end_tick_height = None
    /\ min_value = 0
    /\ max_value = 100

\* a number line that is not looked at
NumberLineIdle ==
    /\ orientation = "Horizontal"
    /\ mid_x = 0
    /\ mid_y = 0
    /\ touch_directioned = TRUE
    /\ touch_distance = 0
    /\ feedback_stim = None
    /\ feedback_stim_offset = <<0, 0>>
    /\ last_mouse_coord = None
    /\ last_touched_coord = None
    /\ initial_mouse_dir = None
    /\ mouse = NoMouse
    /\ LineDefaults

\* a trial loop that is not looked at
RunIdle ==
    /\ trajectory_sensitive_objects = <<>>
    /\ pc = "idle"
    /\ trials_run = 0
    /\ trace = <<>>
    /\ stale = {}

\* a scheduler that is not looked at
SchedulerIdle ==
    /\ operations = <<>>
    /\ clock = 0
    /\ occurred = <<>>
    /\ invoked = <<>>

\* an RSVP stimulus that is not looked at
RSVPIdle ==
    /\ onset_time = <<>>
    /\ duration = <<>>
    /\ last_stimulus_remains = FALSE
    /\ start_rsvp_event = None
    /\ terminate_rsvp_event = None
    /\ stimuli = <<>>
    /\ registered_ops = {}
    /\ show_hide_operations = None
    /\ start_showing_time = None
    /\ applied = <<>>

\* a queue of trials that is not looked at
TrialsIdle ==
    /\ trials = <<>>
    /\ shuffle_trials = FALSE
    /\ trial_config = None
    /\ trial_num = 1
    /\ exp_data = [nTrialsCompleted |-> 0, nTrialsSucceeded |-> 0, nTrialsFailed |-> 0]
    /\ run_trials_pc = "idle"
    /\ run_trial_rc = None
    /\ history = <<>>

TimelineIdle == RunIdle /\ SchedulerIdle /\ RSVPIdle /\ TrialsIdle

\* ----------------------------------------------------------------- actions

\* InstantaneousSpeedValidator(axis, enabled, min_speed, max_speed, grace_period,
\* calculation_interval, movement_monitor = SpeedMonitor(units_per_mm, ...));
\* __init__ ends with reset().  axis, the speed bounds, the grace period,
\* enabled and units_per_mm keep the values given here.
Init ==
    /\ units_per_mm \in UnitsPerMmValues
    /\ calculation_interval \in IntervalValues
    /\ recent_points = <<>>
    /\ pre_recent_point = None
    /\ time0 = None
    /\ enabled \in BOOLEAN
    /\ axis \in ValidationAxis
    /\ min_speed \in {None} \cup {Some(v) : v \in MinSpeedValues}
    /\ max_speed \in {None} \cup {Some(v) : v \in MaxSpeedValues}
    /\ grace_period \in GraceValues
    /\ interval_changed = FALSE
    /\ last = Call("init", None, "none", None)
    /\ component = "speed"
    /\ TimelineIdle
    /\ GradientIdle
    /\ NumberLineIdle

\* InstantaneousSpeedValidator.reset(time0) -> SpeedMonitor.reset(time)
Reset(time) ==
    /\ recent_points' = <<>>
    /\ pre_recent_point' = None
    /\ time0' = time
    /\ interval_changed' = FALSE
    /\ last' = Call("reset", time, "none", None)
    /\ UNCHANGED <<units_per_mm, calculation_interval, cfgVars>>
    /\ UNCHANGED <<component, timelineVars, gradientVars, lineVars>>

\* InstantaneousSpeedValidator.update_xyt(x_coord, y_coord, time_in_trial)
\* (at most MaxPushes samples are pushed between two resets)
UpdateXYT(x, y, time) ==
    /\ NextOrdinal(recent_points, pre_recent_point) <= MaxPushes
    /\ IF ~enabled
       THEN /\ last' = Call("update", Some(time), "none", None)
            /\ UNCHANGED <<recent_points, pre_recent_point, time0>>
       ELSE IF ValidateTimeRaises(recent_points, time0, time)
       THEN /\ last' = Call("update", Some(time), "InvalidStateError", None)
            /\ UNCHANGED <<recent_points, pre_recent_point, time0>>
       ELSE LET m == MonitorUpdate(recent_points, pre_recent_point, time0,
                                   calculation_interval, x, y, time)
                v == Validate(m[2], m[1], m[3], units_per_mm,
                              axis, min_speed, max_speed, grace_period)
            IN  /\ pre_recent_point' = m[1]
                /\ recent_points' = m[2]
                /\ time0' = m[3]
                /\ last' = Call("update", Some(time), v.raised, v.ret)
    /\ UNCHANGED <<units_per_mm, calculation_interval, cfgVars, interval_changed>>
    /\ UNCHANGED <<component, timelineVars, gradientVars, lineVars>>

\* InstantaneousSpeedValidator.calculation_interval = value
SetCalculationInterval(value) ==
    /\ calculation_interval' = value
    /\ interval_changed' = (interval_changed \/ value # calculation_interval)
    /\ last' = Call("set", None, "none", None)
    /\ UNCHANGED <<units_per_mm, recent_points, pre_recent_point, time0, cfgVars>>
    /\ UNCHANGED <<component, timelineVars, gradientVars, lineVars>>

\* the pointer is at the origin when a trial starts
StartXs == IF recent_points = <<>> /\ pre_recent_point = None THEN {0} ELSE Xs
StartYs == IF recent_points = <<>> /\ pre_recent_point = None THEN {0} ELSE Ys

Next ==
    \/ \E time \in ResetTimes : Reset(time)
    \/ \E x \in StartXs, y \in StartYs, t \in Times : UpdateXYT(x, y, t)
    \/ \E value \in IntervalValues : SetCalculationInterval(value)

Spec == Init /\ [][Next]_vars

\* ------------------------------------------------- MoveByGradientValidator

\* MoveByGradientValidator.cyclic_ratio
cyclic_ratio == 5

err_gradient == "GradientViolation"

\* the colors (as numbers) of the images the validator is constructed with
ColorImages == {{}, {0, 50, 100, 250, 255}, {0, 40, 50, 240}}

\* the values given for max_valid_back_movement
BackMovementValues == {0, 50}

SetMin(S) == CHOOSE i \in S : \A j \in S : i <= j

\* what self._lcm.get_color_at(x_coord, y_coord) can return for a location:
\* None outside the image's known area, else a color of the image
ColorsAt == {None} \cup {Some(c) : c \in available_colors}

GradientError == Some([err_code |-> err_gradient])

Verdict(raised, ret, color) == [raised |-> raised, ret |-> ret, last_color |-> color]

\* mutant of GradientValidate: a location without a color keeps the remembered color
GradientValidateKeepsColor(color, remembered, ascend, back, cyc, calculated, mn, mx) ==
    IF color = None THEN Verdict("none", None, remembered)
    ELSE IF remembered = None THEN Verdict("none", None, color)
    ELSE LET expected_direction == IF ascend THEN 1 ELSE -1
             rgb_delta == (Val(color) - Val(remembered)) * expected_direction
         IN  IF rgb_delta >= 0 THEN Verdict("none", None, color)
             ELSE IF rgb_delta >= -back THEN Verdict("none", None, remembered)
             ELSE IF cyc /\ ~calculated THEN Verdict("AttributeError", None, remembered)
             ELSE IF cyc /\ mn # None
                     /\ Abs(rgb_delta) >= cyclic_ratio * ((Val(mx) - Val(mn)) - Abs(rgb_delta))
             THEN Verdict("none", None, color)
             ELSE Verdict("none", GradientError, remembered)

\* mutant of GradientValidate: a tolerated back movement is remembered
GradientValidateRemembersBlip(color, remembered, ascend, back, cyc, calculated, mn, mx) ==
    IF color = None THEN Verdict("none", None, None)
    ELSE IF remembered = None THEN Verdict("none", None, color)
    ELSE LET expected_direction == IF ascend THEN 1 ELSE -1
             rgb_delta == (Val(color) - Val(remembered)) * expected_direction
         IN  IF rgb_delta >= 0 THEN Verdict("none", None, color)
             ELSE IF rgb_delta >= -back THEN Verdict("none", None, color)
             ELSE IF cyc /\ ~calculated THEN Verdict("AttributeError", None, remembered)
             ELSE IF cyc /\ mn # None
                     /\ Abs(rgb_delta) >= cyclic_ratio * ((Val(mx) - Val(mn)) - Abs(rgb_delta))
             THEN Verdict("none", None, color)
             ELSE Verdict("none", GradientError, remembered)

\* mutant of GradientValidate: the color of a failed update is remembered
GradientValidateLatches(color, remembered, ascend, back, cyc, calculated, mn, mx) ==
    IF color = None THEN Verdict("none", None, None)
    ELSE IF remembered = None THEN Verdict("none", None, color)
    ELSE LET expected_direction == IF ascend THEN 1 ELSE -1
             rgb_delta == (Val(color) - Val(remembered)) * expected_direction
         IN  IF rgb_delta >= 0 THEN Verdict("none", None, color)
             ELSE IF rgb_delta >= -back THEN Verdict("none", None, remembered)
             ELSE IF cyc /\ ~calculated THEN Verdict("AttributeError", None, remembered)
             ELSE IF cyc /\ mn # None
                     /\ Abs(rgb_delta) >= cyclic_ratio * ((Val(mx) - Val(mn)) - Abs(rgb_delta))
             THEN Verdict("none", None, color)
             ELSE Verdict("none", GradientError, color)

\* mutant of GradientValidate: two tolerated steps in a row are tolerated
GradientValidateWideTolerance(color, remembered, ascend, back, cyc, calculated, mn, mx) ==
    IF color = None THEN Verdict("none", None, None)
    ELSE IF remembered = None THEN Verdict("none", None, color)
    ELSE LET expected_direction == IF ascend THEN 1 ELSE -1
             rgb_delta == (Val(color) - Val(remembered)) * expected_direction
         IN  IF rgb_delta >= 0 THEN Verdict("none", None, color)
             ELSE IF rgb_delta >= -(back + back) THEN Verdict("none", None, remembered)
             ELSE IF cyc /\ ~calculated THEN Verdict("AttributeError", None, remembered)
             ELSE IF cyc /\ mn # None
                     /\ Abs(rgb_delta) >= cyclic_ratio * ((Val(mx) - Val(mn)) - Abs(rgb_delta))
             THEN Verdict("none", None, color)
             ELSE Verdict("none", GradientError, remembered)

\* update_xyt of an enabled validator, from the color found at the location:
\* what it raises, what it returns and the new _last_color.  Reading
\* _min_available_color raises AttributeError while _calc_min_max_colors has
\* not run (__init__ does not run it).
GradientValidate(color, remembered, ascend, back, cyc, calculated, mn, mx) ==
    IF color = None THEN Verdict("none", None, None)
    ELSE IF remembered = None THEN Verdict("none", None, color)
    ELSE LET expected_direction == IF ascend THEN 1 ELSE -1
             rgb_delta == (Val(color) - Val(remembered)) * expected_direction
         IN  IF rgb_delta >= 0 THEN Verdict("none", None, color)
             ELSE IF rgb_delta >= -back THEN Verdict("none", None, remembered)
             ELSE IF cyc /\ ~calculated THEN Verdict("AttributeError", None, remembered)
             ELSE IF cyc /\ mn # None
                     /\ Abs(rgb_delta) >= cyclic_ratio * ((Val(mx) - Val(mn)) - Abs(rgb_delta))
             THEN Verdict("none", None, color)
             ELSE Verdict("none", GradientError, remembered)

\* MoveByGradientValidator(image, rgb_should_ascend, max_valid_back_movement,
\* cyclic, enabled); __init__ ends with reset()
GradientInit ==
    /\ component = "gradient"
    /\ TimelineIdle
    /\ enabled \in BOOLEAN
    /\ rgb_should_ascend \in BOOLEAN
    /\ max_valid_back_movement \in BackMovementValues
    /\ cyclic \in BOOLEAN
    /\ available_colors \in ColorImages
    /\ colors_calculated = FALSE
    /\ min_available_color = None
    /\ max_available_color = None
    /\ last_color = None
    /\ seen = NoColorSeen
    /\ last = Call("init", None, "none", None)
    /\ SpeedIdle
    /\ NumberLineIdle

\* MoveByGradientValidator.reset(time0)
GradientReset ==
    /\ last_color' = None
    /\ seen' = NoColorSeen
    /\ last' = Call("reset", None, "none", None)
    /\ UNCHANGED <<gradientCfgVars, colors_calculated, min_available_color,
                   max_available_color>>
    /\ UNCHANGED <<component, timelineVars, smVars, cfgVars, interval_changed, lineVars>>

\* mutant of GradientUpdateXYT: a disabled validator still follows the colors
GradientUpdateXYTWhileDisabled(color) ==
    /\ LET v == GradientValidate(color, last_color, rgb_should_ascend,
                                 max_valid_back_movement, cyclic, colors_calculated,
                                 min_available_color, max_available_color)
       IN  /\ last_color' = v.last_color
           /\ last' = IF enabled THEN Call("update", None, v.raised, v.ret)
                      ELSE Call("update", None, "none", None)
    /\ seen' = [color |-> color, remembered |-> last_color, before |-> seen.color]
    /\ UNCHANGED <<gradientCfgVars, colors_calculated, min_available_color,
                   max_available_color>>
    /\ UNCHANGED <<component, timelineVars, smVars, cfgVars, interval_changed, lineVars>>

\* MoveByGradientValidator.update_xyt(x_coord, y_coord, time), where color is
\* what the image has at (x_coord, y_coord)
GradientUpdateXYT(color) ==
    /\ IF ~enabled
       THEN /\ last' = Call("update", None, "none", None)
            /\ UNCHANGED last_color
       ELSE LET v == GradientValidate(color, last_color, rgb_should_ascend,
                                      max_valid_back_movement, cyclic, colors_calculated,
                                      min_available_color, max_available_color)
            IN  /\ last_color' = v.last_color
                /\ last' = Call("update", None, v.raised, v.ret)
    /\ seen' = [color |-> color, remembered |-> last_color, before |-> seen.color]
    /\ UNCHANGED <<gradientCfgVars, colors_calculated, min_available_color,
                   max_available_color>>
    /\ UNCHANGED <<component, timelineVars, smVars, cfgVars, interval_changed, lineVars>>

\* MoveByGradientValidator.single_color = value: ends with _calc_min_max_colors()
SetSingleColor ==
    /\ colors_calculated' = TRUE
    /\ min_available_color' = IF available_colors = {} THEN None
                              ELSE Some(SetMin(available_colors))
    /\ max_available_color' = IF available_colors = {} THEN None
                              ELSE Some(SetMax(available_colors))
    /\ last' = Call("set", None, "none", None)
    /\ UNCHANGED <<gradientCfgVars, last_color, seen>>
    /\ UNCHANGED <<component, timelineVars, smVars, cfgVars, interval_changed, lineVars>>

\* _BaseValidator.enabled = value
SetEnabled(value) ==
    /\ enabled' = value
    /\ last' = Call("set", None, "none", None)
    /\ UNCHANGED <<axis, min_speed, max_speed, grace_period>>
    /\ UNCHANGED <<component, timelineVars, smVars, interval_changed, gradientVars, lineVars>>

GradientNext ==
    \/ GradientReset
    \/ \E color \in ColorsAt : GradientUpdateXYT(color)
    \/ SetSingleColor
    \/ \E value \in BOOLEAN : SetEnabled(value)

SpecGradient == GradientInit /\ [][GradientNext]_vars

\* ------------------------------------------------------------- NumberLine

MaxCoord == 2
MaxSamples == 3

\* the coordinates of the samples
Coords == (-MaxCoord)..MaxCoord

Orientation == {"Horizontal", "Vertical"}

\* the positions (x, y) of the middle of the line
LinePositions == {<<0, 0>>, <<1, -1>>}

TouchDistanceValues == {-1, 0, 2}

FeedbackStimOffsets == {<<0, 0>>, <<0, 1>>}

\* np.sign of an integer
Sign(i) == IF i > 0 THEN 1 ELSE IF i < 0 THEN -1 ELSE 0

\* update_xyt: the coordinate across the line, the line's coordinate on that
\* axis (_main_line_start() is 0 across the line) and the coordinate along
\* the line relative to its middle
MouseCoord(o, x, y) == IF o = "Horizontal" THEN y ELSE x
LineCoord(o, mx, my) == IF o = "Horizontal" THEN 0 + my ELSE 0 + mx
TouchCoord(o, x, y, mx, my) == IF o = "Horizontal" THEN x - mx ELSE y - my

\* mutant of Touch: the recorded direction is not applied to the distance
TouchIgnoresDirection(distance, directioned, dir, td) ==
    IF ~directioned
    THEN [touched |-> Abs(distance) <= td, dir |-> dir]
    ELSE IF dir = None
    THEN [touched |-> FALSE, dir |-> Some(Sign(distance))]
    ELSE [touched |-> distance < td, dir |-> dir]

\* mutant of Touch: the first sample is evaluated too
TouchEvaluatesFirst(distance, directioned, dir, td) ==
    IF ~directioned
    THEN [touched |-> Abs(distance) <= td, dir |-> dir]
    ELSE IF dir = None
    THEN [touched |-> distance * Sign(distance) < td, dir |-> Some(Sign(distance))]
    ELSE [touched |-> distance * Val(dir) < td, dir |-> dir]

\* mutant of Touch: without direction the line is touched from one side only
TouchFromOneSide(distance, directioned, dir, td) ==
    IF ~directioned
    THEN [touched |-> distance >= 0 /\ distance <= td, dir |-> dir]
    ELSE IF dir = None
    THEN [touched |-> FALSE, dir |-> Some(Sign(distance))]
    ELSE [touched |-> distance * Val(dir) < td, dir |-> dir]

\* update_xyt: whether the sample touches the line, and the new _initial_mouse_dir
Touch(distance, directioned, dir, td) ==
    IF ~directioned
    THEN [touched |-> Abs(distance) <= td, dir |-> dir]
    ELSE IF dir = None
    THEN [touched |-> FALSE, dir |-> Some(Sign(distance))]
    ELSE [touched |-> distance * Val(dir) < td, dir |-> dir]

\* _show_feedback_stim: the feedback stimulus after the touch at touched_coord
ShowFeedbackStim(stim, o, mx, my, touched_coord, offset) ==
    IF stim = None THEN None
    ELSE LET fb_stim_coord == IF o = "Horizontal" THEN <<mx + touched_coord, my>>
                              ELSE <<mx, my + touched_coord>>
         IN  Some([position |-> <<fb_stim_coord[1] + offset[1], fb_stim_coord[2] + offset[2]>>,
                   visible |-> TRUE])

\* NumberLine(position, orientation, feedback_stim) with touch_directioned,
\* touch_distance and feedback_stim_offset set before the first trial;
\* __init__ ends with reset()
NumberLineInit ==
    /\ component = "numberline"
    /\ TimelineIdle
    /\ orientation \in Orientation
    /\ \E position \in LinePositions : mid_x = position[1] /\ mid_y = position[2]
    /\ touch_directioned \in BOOLEAN
    /\ touch_distance \in TouchDistanceValues
    /\ feedback_stim \in {None, Some([position |-> <<0, 0>>, visible |-> FALSE])}
    /\ feedback_stim_offset \in FeedbackStimOffsets
    /\ last_mouse_coord = None
    /\ last_touched_coord = None
    /\ initial_mouse_dir = None
    /\ mouse = NoMouse
    /\ LineDefaults
    /\ last = Call("init", None, "none", None)
    /\ enabled = TRUE
    /\ SpeedIdle
    /\ GradientIdle

\* mutant of NumberLineReset: the approach direction is kept
NumberLineResetKeepsDirection ==
    /\ last_mouse_coord' = None
    /\ last_touched_coord' = None
    /\ initial_mouse_dir' = initial_mouse_dir
    /\ mouse' = NoMouse
    /\ last' = Call("reset", None, "none", None)
    /\ UNCHANGED <<lineCfgVars, feedback_stim>>
    /\ UNCHANGED <<component, timelineVars, smVars, cfgVars, interval_changed, gradientVars>>

\* mutant of NumberLineReset: every second reset forgets the approach direction
NumberLineResetAlternates ==
    /\ last_mouse_coord' = None
    /\ last_touched_coord' = None
    /\ initial_mouse_dir' = IF last_touched_coord # None THEN initial_mouse_dir ELSE None
    /\ mouse' = NoMouse
    /\ last' = Call("reset", None, "none", None)
    /\ UNCHANGED <<lineCfgVars, feedback_stim>>
    /\ UNCHANGED <<component, timelineVars, smVars, cfgVars, interval_changed, gradientVars>>

\* NumberLine.reset(time0)
NumberLineReset ==
    /\ last_mouse_coord' = None
    /\ last_touched_coord' = None
    /\ initial_mouse_dir' = None
    /\ mouse' = NoMouse
    /\ last' = Call("reset", None, "none", None)
    /\ UNCHANGED <<lineCfgVars, feedback_stim>>
    /\ UNCHANGED <<component, timelineVars, smVars, cfgVars, interval_changed, gradientVars>>

\* mutant of NumberLineUpdateXYT: a touched line follows the later samples
NumberLineUpdateXYTNotFrozen(x, y) ==
    /\ mouse.n < MaxSamples
    /\ last' = Call("update", None, "none", None)
    /\ LET mouse_coord == MouseCoord(orientation, x, y)
           line_coord == LineCoord(orientation, mid_x, mid_y)
           touch_coord == TouchCoord(orientation, x, y, mid_x, mid_y)
           r == Touch(line_coord - mouse_coord, touch_directioned,
                      initial_mouse_dir, touch_distance)
       IN  /\ initial_mouse_dir' = r.dir
           /\ mouse' = [x |-> x, y |-> y, n |-> mouse.n + 1,
                        touched |-> mouse.touched \/ r.touched]
           /\ last_touched_coord' = IF r.touched THEN Some(touch_coord)
                                    ELSE last_touched_coord
           /\ feedback_stim' =
                 IF r.touched
                 THEN ShowFeedbackStim(feedback_stim, orientation, mid_x, mid_y,
                                       touch_coord, feedback_stim_offset)
                 ELSE feedback_stim
    /\ UNCHANGED <<lineCfgVars, last_mouse_coord>>
    /\ UNCHANGED <<component, timelineVars, smVars, cfgVars, interval_changed, gradientVars>>

\* NumberLine.update_xyt(x_coord, y_coord, time_in_trial)
\* (at most MaxSamples samples are given between two resets)
NumberLineUpdateXYT(x, y) ==
    /\ mouse.n < MaxSamples
    /\ last' = Call("update", None, "none", None)
    /\ IF last_touched_coord # None
       THEN /\ mouse' = [x |-> x, y |-> y, n |-> mouse.n + 1, touched |-> mouse.touched]
            /\ UNCHANGED <<last_touched_coord, initial_mouse_dir, feedback_stim>>
       ELSE LET mouse_coord == MouseCoord(orientation, x, y)
                line_coord == LineCoord(orientation, mid_x, mid_y)
                touch_coord == TouchCoord(orientation, x, y, mid_x, mid_y)
                r == Touch(line_coord - mouse_coord, touch_directioned,
                           initial_mouse_dir, touch_distance)
            IN  /\ initial_mouse_dir' = r.dir
                /\ mouse' = [x |-> x, y |-> y, n |-> mouse.n + 1,
                             touched |-> mouse.touched \/ r.touched]
                /\ last_touched_coord' = IF r.touched THEN Some(touch_coord) ELSE None
                /\ feedback_stim' =
                      IF r.touched
                      THEN ShowFeedbackStim(feedback_stim, orientation, mid_x, mid_y,
                                            touch_coord, feedback_stim_offset)
                      ELSE feedback_stim
    /\ UNCHANGED <<lineCfgVars, last_mouse_coord>>
    /\ UNCHANGED <<component, timelineVars, smVars, cfgVars, interval_changed, gradientVars>>

\* the values given to the setters of the number line
LineLengthValues == {2, 4}
LineWidthValues == {1, 2}
LineColourValues == {None, Some("white")}
EndTickHeightValues == {None, Some(5)}
MinValueValues == {0, 10}
MaxValueValues == {10, 100}

err_invalid_state == "InvalidStateError"
err_value == "ValueError"

\* mutant of ValidateUnlocked: a preloaded line is not locked
ValidateUnlockedNever(is_preloaded) == "none"

\* _validate_unlocked: what it raises
ValidateUnlocked(is_preloaded) ==
    IF is_preloaded THEN err_invalid_state ELSE "none"

\* validate(): what it raises (the labels are not shown: show_labels(visible=False))
NumberLineValidate(mn, mx) == IF mn >= mx THEN err_value ELSE "none"

\* NumberLine.orientation = value
SetOrientation(value) ==
    /\ IF ValidateUnlocked(preloaded) # "none"
       THEN /\ last' = Call("orientation", Some(value), ValidateUnlocked(preloaded), None)
            /\ UNCHANGED orientation
       ELSE /\ last' = Call("orientation", Some(value), "none", None)
            /\ orientation' = value
    /\ UNCHANGED <<mid_x, mid_y, touch_directioned, touch_distance, feedback_stim,
                 feedback_stim_offset, last_mouse_coord, last_touched_coord,
                 initial_mouse_dir, mouse, preloaded, line_length, line_width,
                 line_colour, end_tick_height, min_value, max_value>>
    /\ UNCHANGED <<component, timelineVars, smVars, cfgVars, interval_changed, gradientVars>>

\* NumberLine.position = value
SetPosition(value) ==
    /\ IF ValidateUnlocked(preloaded) # "none"
       THEN /\ last' = Call("position", Some(value), ValidateUnlocked(preloaded), None)
            /\ UNCHANGED <<mid_x, mid_y>>
       ELSE /\ last' = Call("position", Some(value), "none", None)
            /\ mid_x' = value[1]
            /\ mid_y' = value[2]
    /\ UNCHANGED <<orientation, touch_directioned, touch_distance, feedback_stim,
                 feedback_stim_offset, last_mouse_coord, last_touched_coord,
                 initial_mouse_dir, mouse, preloaded, line_length, line_width,
                 line_colour, end_tick_height, min_value, max_value>>
    /\ UNCHANGED <<component, timelineVars, smVars, cfgVars, interval_changed, gradientVars>>

\* NumberLine.line_length = value
SetLineLength(value) ==
    /\ IF ValidateUnlocked(preloaded) # "none"
       THEN /\ last' = Call("line_length", Some(value), ValidateUnlocked(preloaded), None)
            /\ UNCHANGED line_length
       ELSE /\ last' = Call("line_length", Some(value), "none", None)
            /\ line_length' = value
    /\ UNCHANGED <<orientation, mid_x, mid_y, touch_directioned, touch_distance,
                 feedback_stim, feedback_stim_offset, last_mouse_coord,
                 last_touched_coord, initial_mouse_dir, mouse, preloaded, line_width,
                 line_colour, end_tick_height, min_value, max_value>>
    /\ UNCHANGED <<component, timelineVars, smVars, cfgVars, interval_changed, gradientVars>>

\* NumberLine.end_tick_height = value
SetEndTickHeight(value) ==
    /\ IF ValidateUnlocked(preloaded) # "none"
       THEN /\ last' = Call("end_tick_height", Some(value), ValidateUnlocked(preloaded), None)
            /\ UNCHANGED end_tick_height
       ELSE /\ last' = Call("end_tick_height", Some(value), "none", None)
            /\ end_tick_height' = value
    /\ UNCHANGED <<orientation, mid_x, mid_y, touch_directioned, touch_distance,
                 feedback_stim, feedback_stim_offset, last_mouse_coord,
                 last_touched_coord, initial_mouse_dir, mouse, preloaded,
                 line_length, line_width, line_colour, min_value, max_value>>
    /\ UNCHANGED <<component, timelineVars, smVars, cfgVars, interval_changed, gradientVars>>

\* NumberLine.line_width = value
SetLineWidth(value) ==
    /\ IF ValidateUnlocked(preloaded) # "none"
       THEN /\ last' = Call("line_width", Some(value), ValidateUnlocked(preloaded), None)
            /\ UNCHANGED line_width
       ELSE /\ last' = Call("line_width", Some(value), "none", None)
            /\ line_width' = value
    /\ UNCHANGED <<orientation, mid_x, mid_y, touch_directioned, touch_distance,
                 feedback_stim, feedback_stim_offset, last_mouse_coord,
                 last_touched_coord, initial_mouse_dir, mouse, preloaded,
                 line_length, line_colour, end_tick_height, min_value, max_value>>
    /\ UNCHANGED <<component, timelineVars, smVars, cfgVars, interval_changed, gradientVars>>

\* NumberLine.line_colour = value
SetLineColour(value) ==
    /\ IF ValidateUnlocked(preloaded) # "none"
       THEN /\ last' = Call("line_colour", Some(value), ValidateUnlocked(preloaded), None)
            /\ UNCHANGED line_colour
       ELSE /\ last' = Call("line_colour", Some(value), "none", None)
            /\ line_colour' = value
    /\ UNCHANGED <<orientation, mid_x, mid_y, touch_directioned, touch_distance,
                 feedback_stim, feedback_stim_offset, last_mouse_coord,
                 last_touched_coord, initial_mouse_dir, mouse, preloaded,
                 line_length, line_width, end_tick_height, min_value, max_value>>
    /\ UNCHANGED <<component, timelineVars, smVars, cfgVars, interval_changed, gradientVars>>

\* NumberLine.min_value = value
SetMinValue(value) ==
    /\ IF ValidateUnlocked(preloaded) # "none"
       THEN /\ last' = Call("min_value", Some(value), ValidateUnlocked(preloaded), None)
            /\ UNCHANGED min_value
       ELSE /\ last' = Call("min_value", Some(value), "none", None)
            /\ min_value' = value
    /\ UNCHANGED <<orientation, mid_x, mid_y, touch_directioned, touch_distance,
                 feedback_stim, feedback_stim_offset, last_mouse_coord,
                 last_touched_coord, initial_mouse_dir, mouse, preloaded,
                 line_length, line_width, line_colour, end_tick_height, max_value>>
    /\ UNCHANGED <<component, timelineVars, smVars, cfgVars, interval_changed, gradientVars>>

\* NumberLine.max_value = value
SetMaxValue(value) ==
    /\ IF ValidateUnlocked(preloaded) # "none"
       THEN /\ last' = Call("max_value", Some(value), ValidateUnlocked(preloaded), None)
            /\ UNCHANGED max_value
       ELSE /\ last' = Call("max_value", Some(value), "none", None)
            /\ max_value' = value
    /\ UNCHANGED <<orientation, mid_x, mid_y, touch_directioned, touch_distance,
                 feedback_stim, feedback_stim_offset, last_mouse_coord,
                 last_touched_coord, initial_mouse_dir, mouse, preloaded,
                 line_length, line_width, line_colour, end_tick_height, min_value>>
    /\ UNCHANGED <<component, timelineVars, smVars, cfgVars, interval_changed, gradientVars>>

\* NumberLine.touch_distance = value
SetTouchDistance(value) ==
    /\ IF ValidateUnlocked(preloaded) # "none"
       THEN /\ last' = Call("touch_distance", Some(value), ValidateUnlocked(preloaded), None)
            /\ UNCHANGED touch_distance
       ELSE /\ last' = Call("touch_distance", Some(value), "none", None)
            /\ touch_distance' = value
    /\ UNCHANGED <<orientation, mid_x, mid_y, touch_directioned, feedback_stim,
                 feedback_stim_offset, last_mouse_coord, last_touched_coord,
                 initial_mouse_dir, mouse, preloaded, line_length, line_width,
                 line_colour, end_tick_height, min_value, max_value>>
    /\ UNCHANGED <<component, timelineVars, smVars, cfgVars, interval_changed, gradientVars>>

\* NumberLine.touch_directioned = value
SetTouchDirectioned(value) ==
    /\ IF ValidateUnlocked(preloaded) # "none"
       THEN /\ last' = Call("touch_directioned", Some(value), ValidateUnlocked(preloaded), None)
            /\ UNCHANGED touch_directioned
       ELSE /\ last' = Call("touch_directioned", Some(value), "none", None)
            /\ touch_directioned' = value
    /\ UNCHANGED <<orientation, mid_x, mid_y, touch_distance, feedback_stim,
                 feedback_stim_offset, last_mouse_coord, last_touched_coord,
                 initial_mouse_dir, mouse, preloaded, line_length, line_width,
                 line_colour, end_tick_height, min_value, max_value>>
    /\ UNCHANGED <<component, timelineVars, smVars, cfgVars, interval_changed, gradientVars>>

\* NumberLine.preload()
Preload ==
    /\ IF preloaded
       THEN /\ last' = Call("preload", None, "none", None)
            /\ UNCHANGED preloaded
       ELSE IF NumberLineValidate(min_value, max_value) # "none"
       THEN /\ last' = Call("preload", None, NumberLineValidate(min_value, max_value), None)
            /\ UNCHANGED preloaded
       ELSE /\ last' = Call("preload", None, "none", None)
            /\ preloaded' = TRUE
    /\ UNCHANGED <<orientation, mid_x, mid_y, touch_directioned, touch_distance,
                 feedback_stim, feedback_stim_offset, last_mouse_coord,
                 last_touched_coord, initial_mouse_dir, mouse, line_length,
                 line_width, line_colour, end_tick_height, min_value, max_value>>
    /\ UNCHANGED <<component, timelineVars, smVars, cfgVars, interval_changed, gradientVars>>

RatAdd(a, b) == Rat(a.num * b.den + b.num * a.den, a.den * b.den)
RatMul(a, b) == Rat(a.num * b.num, a.den * b.den)

\* mutant of LastTouchedValue: a touch in the middle of the line (coordinate 0)
\* counts as no touch
LastTouchedValueFalsy(coord, length, mn, mx) ==
    IF coord = None \/ coord = Some(0) THEN None
    ELSE LET pos01 == RatAdd(PyDiv(Val(coord), length), Rat(1, 2))
         IN  Some(RatAdd(RatMul(pos01, Rat(mx - mn, 1)), Rat(mn, 1)))

\* NumberLine.last_touched_value: None, or Some(value) in the line's scale
LastTouchedValue(coord, length, mn, mx) ==
    IF coord = None THEN None
    ELSE LET pos01 == RatAdd(PyDiv(Val(coord), length), Rat(1, 2))
         IN  Some(RatAdd(RatMul(pos01, Rat(mx - mn, 1)), Rat(mn, 1)))

NumberLineNext ==
    \/ NumberLineReset
    \/ \E x \in Coords, y \in Coords : NumberLineUpdateXYT(x, y)

SpecNumberLine == NumberLineInit /\ [][NumberLineNext]_vars

\* the number line, its extent and its scale
NumberLineValueNext ==
    \/ NumberLineReset
    \/ \E x \in Coords, y \in Coords : NumberLineUpdateXYT(x, y)
    \/ \E value \in LineLengthValues : SetLineLength(value)
    \/ \E value \in MinValueValues : SetMinValue(value)
    \/ \E value \in MaxValueValues : SetMaxValue(value)

\* a number line without a feedback stimulus, touched when it is reached
NumberLineValueInit ==
    /\ NumberLineInit
    /\ touch_distance = 0
    /\ feedback_stim = None
    /\ feedback_stim_offset = <<0, 0>>

SpecNumberLineValue == NumberLineValueInit /\ [][NumberLineValueNext]_vars

\* the number line before the first trial: its properties are set and it is preloaded
NumberLineSetupNext ==
    \/ \E value \in Orientation : SetOrientation(value)
    \/ \E value \in LinePositions : SetPosition(value)
    \/ \E value \in LineLengthValues : SetLineLength(value)
    \/ \E value \in EndTickHeightValues : SetEndTickHeight(value)
    \/ \E value \in LineWidthValues : SetLineWidth(value)
    \/ \E value \in LineColourValues : SetLineColour(value)
    \/ \E value \in MinValueValues : SetMinValue(value)
    \/ \E value \in MaxValueValues : SetMaxValue(value)
    \/ \E value \in TouchDistanceValues : SetTouchDistance(value)
    \/ \E value \in BOOLEAN : SetTouchDirectioned(value)
    \/ Preload

SpecNumberLineSetup == NumberLineInit /\ [][NumberLineSetupNext]_vars

\* ------------------------------------------------------------- RSVPText

MaxStim == 2
MaxOnset == 2
MaxDuration == 2
MaxRsvpTime == 4

\* the times given to start_showing and update_rsvp
RsvpTimes == 0..MaxRsvpTime

\* the number of stimuli: len(self._text), one text per onset time
NStim == Len(onset_time)

\* _create_stimuli(n_stim): text boxes are added, invisible, until there are n_stim + 1
CreateStimuli(stims, n_stim) ==
    [i \in 1..(IF Len(stims) > n_stim + 1 THEN Len(stims) ELSE n_stim + 1) |->
        IF i <= Len(stims) THEN stims[i] ELSE FALSE]

RECURSIVE Sorted(_)
\* sorted(operations, key=itemgetter(0)): by time, equal times in the order given
Sorted(ops) ==
    IF ops = <<>> THEN <<>>
    ELSE LET first == CHOOSE i \in DOMAIN ops :
                         /\ \A j \in DOMAIN ops : ops[i][1] <= ops[j][1]
                         /\ \A j \in 1..(i - 1) : ops[j][1] > ops[i][1]
         IN  <<ops[first]>> \o
             Sorted([j \in 1..(Len(ops) - 1) |-> IF j < first THEN ops[j] ELSE ops[j + 1]])

\* init_for_trial: show_ops + hide_ops, the stimuli being numbered from 1 here
ShowHideOps(onsets, durations, remains) ==
    LET n_stim == Len(onsets)
        show_ops == [i \in 1..n_stim |-> <<onsets[i], TRUE, i>>]
        hide_ops == [i \in 1..n_stim |-> <<onsets[i] + durations[i], FALSE, i>>]
    IN  show_ops \o (IF remains THEN SubSeq(hide_ops, 1, n_stim - 1) ELSE hide_ops)

RECURSIVE ApplyDue(_, _, _, _, _)
\* update_rsvp: the operations that are due are popped and applied, in order
ApplyDue(ops, stims, done, start, time) ==
    IF ops # <<>> /\ time >= start + Head(ops)[1]
    THEN ApplyDue(Tail(ops), [stims EXCEPT ![Head(ops)[3]] = Head(ops)[2]],
                  Append(done, Head(ops)), start, time)
    ELSE [ops |-> ops, stimuli |-> stims, applied |-> done]

\* what update_rsvp raises: _show_hide_operations is assigned by init_for_trial
\* only, and _start_showing_time is None until start_showing
UpdateRsvpRaises(ops, start) ==
    IF ops = None THEN "AttributeError"
    ELSE IF Val(ops) # <<>> /\ start = None THEN "TypeError"
    ELSE "none"

\* the configurations of the RSVP: onset times, durations, whether the last
\* stimulus remains, the event that starts the RSVP
RSVPConfigured ==
    /\ \E n \in 1..MaxStim :
          /\ onset_time \in [1..n -> 0..MaxOnset]
          /\ duration \in [1..n -> 1..MaxDuration]
    /\ last_stimulus_remains \in BOOLEAN
    /\ start_rsvp_event \in {None, Some("TRIAL_STARTED")}
    /\ terminate_rsvp_event = Some("TRIAL_ENDED")

\* RSVPText(text, onset_time, duration, last_stimulus_remains, start_rsvp_event),
\* not registered to an event manager
RSVPInit ==
    /\ component = "rsvp"
    /\ RSVPConfigured
    /\ stimuli = <<>>
    /\ registered_ops = {}
    /\ show_hide_operations = None
    /\ start_showing_time = None
    /\ applied = <<>>
    /\ last = Call("init", None, "none", None)
    /\ enabled = TRUE
    /\ SpeedIdle /\ GradientIdle /\ NumberLineIdle /\ RunIdle /\ SchedulerIdle /\ TrialsIdle

\* RSVPText.init_for_trial()
InitForTrial ==
    /\ IF start_rsvp_event = None
       THEN /\ last' = Call("init_for_trial", None, err_value, None)
            /\ UNCHANGED <<stimuli, show_hide_operations, start_showing_time, applied>>
       ELSE /\ last' = Call("init_for_trial", None, "none", None)
            /\ stimuli' = CreateStimuli(stimuli, NStim)
            /\ show_hide_operations' =
                  Some(Sorted(ShowHideOps(onset_time, duration, last_stimulus_remains)))
            /\ start_showing_time' = None
            /\ applied' = <<>>
    /\ UNCHANGED <<rsvpCfgVars, registered_ops, runVars, trialsVars, schedVars>>
    /\ UNCHANGED <<component, smVars, cfgVars, interval_changed, gradientVars, lineVars>>

\* RSVPText.update_rsvp(time), after _start_showing_time was set to start
\* (the times of a trial are given in non-decreasing order)
UpdateRsvpFrom(op, start, time) ==
    /\ last.t # None => time >= Val(last.t)
    /\ IF UpdateRsvpRaises(show_hide_operations, start) # "none"
       THEN /\ last' = Call(op, Some(time), UpdateRsvpRaises(show_hide_operations, start), None)
            /\ UNCHANGED <<stimuli, show_hide_operations, applied>>
       ELSE LET r == ApplyDue(Val(show_hide_operations), stimuli, applied, Val(start), time)
            IN  /\ last' = Call(op, Some(time), "none", None)
                /\ stimuli' = r.stimuli
                /\ show_hide_operations' = Some(r.ops)
                /\ applied' = r.applied
    /\ UNCHANGED <<rsvpCfgVars, registered_ops, runVars, trialsVars, schedVars>>
    /\ UNCHANGED <<component, smVars, cfgVars, interval_changed, gradientVars, lineVars>>

\* RSVPText.start_showing(time) (it is called once in a trial)
StartShowing(time) ==
    /\ start_showing_time = None
    /\ start_showing_time' = Some(time)
    /\ UpdateRsvpFrom("start_showing", Some(time), time)

\* RSVPText.update_rsvp(time)
UpdateRsvp(time) ==
    /\ UNCHANGED start_showing_time
    /\ UpdateRsvpFrom("update_rsvp", start_showing_time, time)

RSVPNext ==
    \/ InitForTrial
    \/ \E time \in RsvpTimes : StartShowing(time)
    \/ \E time \in RsvpTimes : UpdateRsvp(time)

SpecRSVP == RSVPInit /\ [][RSVPNext]_vars

\* ------------------------------------------- the scheduler (event manager)

\* the clock counts ticks of half a second
TicksPerSecond == 2

MaxOps == 2
MaxClock == 4
MaxOccurrences == 2

SchedulerEvents == {"E", "E_terminate"}

\* the offsets of the triggers, in ticks
OffsetValues == {0, 1}

\* an action that changes nothing but the record of the invocations
NoOperation == [kind |-> "none", stim |-> 0, visible |-> FALSE]

\* a registered operation: Pending, with no due time until its event occurs
Operation(id, event, offset, action, recurring, cancel_on) ==
    [id |-> id, event |-> event, offset |-> offset, action |-> action,
     recurring |-> recurring, cancel_on |-> cancel_on, state |-> "Pending", due |-> <<>>]

\* the scheduler's table, the invocations and what the actions act on
Timeline ==
    [operations |-> operations, invoked |-> invoked, stimuli |-> stimuli,
     registered_ops |-> registered_ops]

\* register_operation(event + offset, operation, recurring,
\* cancel_pending_operation_on): the new id is the place in the table
RegisterOperation(tl, event, offset, action, recurring, cancel_on) ==
    [tl EXCEPT !.operations =
        Append(@, Operation(Len(@) + 1, event, offset, action, recurring, cancel_on))]

\* mutant of UnregisterOperation: the operations registered before are
\* removed with the ones named
UnregisterUpTo(tl, ids) ==
    [tl EXCEPT !.operations =
        [i \in DOMAIN tl.operations |->
            IF (\E id \in ids : tl.operations[i].id <= id) /\ tl.operations[i].state = "Pending"
            THEN [tl.operations[i] EXCEPT !.state = "Unregistered", !.due = <<>>]
            ELSE tl.operations[i]]]

\* unregister_operation(ids)
UnregisterOperation(tl, ids) ==
    [tl EXCEPT !.operations =
        [i \in DOMAIN tl.operations |->
            IF tl.operations[i].id \in ids /\ tl.operations[i].state = "Pending"
            THEN [tl.operations[i] EXCEPT !.state = "Unregistered", !.due = <<>>]
            ELSE tl.operations[i]]]

RECURSIVE RegisterShowHide(_, _, _)
\* _init_trial_events: the loop over the stimuli from i on; ids are the
\* operations registered so far
RegisterShowHide(tl, i, ids) ==
    IF i > NStim THEN [tl EXCEPT !.registered_ops = ids]
    ELSE LET shown == RegisterOperation(tl, Val(start_rsvp_event), onset_time[i],
                          [kind |-> "enable", stim |-> i, visible |-> TRUE],
                          FALSE, terminate_rsvp_event)
             id1 == Len(shown.operations)
         IN  IF i = NStim /\ last_stimulus_remains
             THEN [shown EXCEPT !.registered_ops = ids \cup {id1}]
             ELSE LET hidden == RegisterOperation(shown, Val(start_rsvp_event),
                                    onset_time[i] + duration[i],
                                    [kind |-> "enable", stim |-> i, visible |-> FALSE],
                                    FALSE, terminate_rsvp_event)
                      id2 == Len(hidden.operations)
                  IN  RegisterShowHide(hidden, i + 1, ids \cup {id1, id2})

\* RSVPText._init_trial_events
InitTrialEvents(tl) ==
    LET configured == [tl EXCEPT !.stimuli = CreateStimuli(@, NStim)]
        registered == RegisterShowHide(configured, 1, {})
    IN  IF terminate_rsvp_event = None THEN registered
        ELSE RegisterOperation(registered, Val(terminate_rsvp_event), 0,
                 [kind |-> "terminate_rsvp", stim |-> 0, visible |-> FALSE], FALSE, None)

\* mutant of TerminateRsvp: the operations are unregistered, the stimuli stay
TerminateRsvpKeepsStimuli(tl) == UnregisterOperation(tl, tl.registered_ops)

\* RSVPText._terminate_rsvp
TerminateRsvp(tl) ==
    [UnregisterOperation(tl, tl.registered_ops) EXCEPT
        !.stimuli = [i \in DOMAIN tl.stimuli |-> FALSE]]

\* the action of operation i is invoked at the time given
Invoke(tl, i, time) ==
    LET action == tl.operations[i].action
        logged == [tl EXCEPT !.invoked = Append(@, [id |-> i, time |-> time])]
    IN  CASE action.kind = "enable" ->
                [logged EXCEPT !.stimuli[action.stim] = action.visible]
          [] action.kind = "init_trial_events" -> InitTrialEvents(logged)
          [] action.kind = "terminate_rsvp" -> TerminateRsvp(logged)
          [] OTHER -> logged

\* a fired operation is removed unless it is recurring
Consumed(tl, i) ==
    IF tl.operations[i].recurring THEN tl
    ELSE [tl EXCEPT !.operations[i].state = "Fired", !.operations[i].due = <<>>]

RECURSIVE FireLastFirst(_, _, _, _, _)
\* mutant of FireNotified: the operations are gone through from the last
\* registered to the first
FireLastFirst(tl, i, n, event, time) ==
    IF i > n THEN tl
    ELSE LET k == n + 1 - i
             op == tl.operations[k]
         IN  IF op.state = "Pending" /\ op.event = event /\ (op.recurring \/ op.due = <<>>)
             THEN IF op.offset = 0
                  THEN FireLastFirst(Invoke(Consumed(tl, k), k, time), i + 1, n, event, time)
                  ELSE FireLastFirst([tl EXCEPT !.operations[k].due = Append(@, time + op.offset)],
                                     i + 1, n, event, time)
             ELSE FireLastFirst(tl, i + 1, n, event, time)

RECURSIVE FireNeverConsumes(_, _, _, _, _)
\* mutant of FireNotified: a fired operation stays in the table
FireNeverConsumes(tl, i, n, event, time) ==
    IF i > n THEN tl
    ELSE LET op == tl.operations[i]
         IN  IF op.state = "Pending" /\ op.event = event /\ (op.recurring \/ op.due = <<>>)
             THEN IF op.offset = 0
                  THEN FireNeverConsumes(Invoke(tl, i, time), i + 1, n, event, time)
                  ELSE FireNeverConsumes([tl EXCEPT !.operations[i].due = Append(@, time + op.offset)],
                                         i + 1, n, event, time)
             ELSE FireNeverConsumes(tl, i + 1, n, event, time)

RECURSIVE FireNotified(_, _, _, _, _)
\* the event occurs at the time given: the Pending operations i to n whose
\* trigger is the event are fired in the order of registration; the trigger
\* of an operation with an offset becomes due that much later
FireNotified(tl, i, n, event, time) ==
    IF i > n THEN tl
    ELSE LET op == tl.operations[i]
         IN  IF op.state = "Pending" /\ op.event = event /\ (op.recurring \/ op.due = <<>>)
             THEN IF op.offset = 0
                  THEN FireNotified(Invoke(Consumed(tl, i), i, time), i + 1, n, event, time)
                  ELSE FireNotified([tl EXCEPT !.operations[i].due = Append(@, time + op.offset)],
                                    i + 1, n, event, time)
             ELSE FireNotified(tl, i + 1, n, event, time)

\* mutant of CancelOn: an operation whose trigger is already due is not cancelled
CancelOnUnlessDue(tl, event) ==
    [tl EXCEPT !.operations =
        [i \in DOMAIN tl.operations |->
            IF /\ tl.operations[i].cancel_on = Some(event)
               /\ tl.operations[i].state = "Pending"
               /\ tl.operations[i].due = <<>>
            THEN [tl.operations[i] EXCEPT !.state = "Cancelled", !.due = <<>>]
            ELSE tl.operations[i]]]

\* the operations that were to be cancelled on the event and have not fired
\* are Cancelled
CancelOn(tl, event) ==
    [tl EXCEPT !.operations =
        [i \in DOMAIN tl.operations |->
            IF tl.operations[i].cancel_on = Some(event) /\ tl.operations[i].state = "Pending"
            THEN [tl.operations[i] EXCEPT !.state = "Cancelled", !.due = <<>>]
            ELSE tl.operations[i]]]

RECURSIVE FireDue(_, _, _, _)
\* the clock has reached the time given: the Pending operations i to n whose
\* trigger is due are fired in the order of registration
FireDue(tl, i, n, time) ==
    IF i > n THEN tl
    ELSE LET op == tl.operations[i]
         IN  IF op.state = "Pending" /\ op.due # <<>> /\ Head(op.due) <= time
             THEN FireDue(Invoke(Consumed([tl EXCEPT !.operations[i].due = Tail(@)], i), i, time),
                          i, n, time)
             ELSE FireDue(tl, i + 1, n, time)

\* a scheduler with no operation
SchedulerInit ==
    /\ component = "scheduler"
    /\ operations = <<>>
    /\ clock = 0
    /\ occurred = [event \in SchedulerEvents |-> 0]
    /\ invoked = <<>>
    /\ last = Call("init", None, "none", None)
    /\ enabled = TRUE
    /\ SpeedIdle /\ GradientIdle /\ NumberLineIdle /\ RunIdle /\ RSVPIdle /\ TrialsIdle

\* the timeline tl takes the place of the scheduler's table, the invocations,
\* the stimuli and the RSVP's operations
Becomes(tl) ==
    /\ operations' = tl.operations
    /\ invoked' = tl.invoked
    /\ stimuli' = tl.stimuli
    /\ registered_ops' = tl.registered_ops

\* register_operation (at most MaxOps operations; an operation that is
\* cancelled on an event is not recurring)
Register(event, offset, recurring, cancel_on) ==
    /\ Len(operations) < MaxOps
    /\ cancel_on # None => ~recurring
    /\ Becomes(RegisterOperation(Timeline, event, offset, NoOperation, recurring, cancel_on))
    /\ last' = Call("register_operation", None, "none", Some(Len(operations) + 1))
    /\ UNCHANGED <<clock, occurred, rsvpCfgVars, show_hide_operations, start_showing_time,
                   applied, runVars, trialsVars>>
    /\ UNCHANGED <<component, smVars, cfgVars, interval_changed, gradientVars, lineVars>>

\* unregister_operation(id)
Unregister(id) ==
    /\ id \in 1..Len(operations)
    /\ Becomes(UnregisterOperation(Timeline, {id}))
    /\ last' = Call("unregister_operation", None, "none", Some(id))
    /\ UNCHANGED <<clock, occurred, rsvpCfgVars, show_hide_operations, start_showing_time,
                   applied, runVars, trialsVars>>
    /\ UNCHANGED <<component, smVars, cfgVars, interval_changed, gradientVars, lineVars>>

\* the scheduler is notified that the event occurs, at the time of its clock
\* (each event at most MaxOccurrences times)
Notify(event) ==
    /\ occurred[event] < MaxOccurrences
    /\ occurred' = [occurred EXCEPT ![event] = @ + 1]
    /\ Becomes(CancelOn(FireNotified(Timeline, 1, Len(operations), event, clock), event))
    /\ last' = Call("notify", Some(clock), "none", Some(event))
    /\ UNCHANGED <<clock, rsvpCfgVars, show_hide_operations, start_showing_time,
                   applied, runVars, trialsVars>>
    /\ UNCHANGED <<component, smVars, cfgVars, interval_changed, gradientVars, lineVars>>

\* the clock advances by one tick (up to MaxClock)
OnFrame ==
    /\ clock < MaxClock
    /\ clock' = clock + 1
    /\ Becomes(FireDue(Timeline, 1, Len(operations), clock + 1))
    /\ last' = Call("on_frame", Some(clock + 1), "none", None)
    /\ UNCHANGED <<occurred, rsvpCfgVars, show_hide_operations, start_showing_time,
                   applied, runVars, trialsVars>>
    /\ UNCHANGED <<component, smVars, cfgVars, interval_changed, gradientVars, lineVars>>

SchedulerNext ==
    \/ \E event \in SchedulerEvents, offset \in OffsetValues, recurring \in BOOLEAN,
          cancel_on \in {None, Some("E_terminate")} :
          Register(event, offset, recurring, cancel_on)
    \/ \E id \in 1..MaxOps : Unregister(id)
    \/ \E event \in SchedulerEvents : Notify(event)
    \/ OnFrame

SpecScheduler == SchedulerInit /\ [][SchedulerNext]_vars

\* ------------------------------------ RSVPText registered to an event manager

TrialEvents == {"TRIAL_INITIALIZED", "TRIAL_STARTED", "TRIAL_ENDED"}

\* BaseRSVPStim.on_registered: the state after the RSVP (with a
\* start_rsvp_event) was registered to the event manager
RSVPEventsInit ==
    /\ component = "rsvp_events"
    /\ RSVPConfigured
    /\ start_rsvp_event # None
    /\ stimuli = <<>>
    /\ registered_ops = {}
    /\ show_hide_operations = None
    /\ start_showing_time = None
    /\ applied = <<>>
    /\ operations = <<Operation(1, "TRIAL_INITIALIZED", 0,
                          [kind |-> "init_trial_events", stim |-> 0, visible |-> FALSE],
                          TRUE, None)>>
    /\ clock = 0
    /\ occurred = [event \in TrialEvents |-> 0]
    /\ invoked = <<>>
    /\ last = Call("init", None, "none", None)
    /\ enabled = TRUE
    /\ SpeedIdle /\ GradientIdle /\ NumberLineIdle /\ RunIdle /\ TrialsIdle

RSVPEventsNext ==
    \/ \E event \in TrialEvents : Notify(event)
    \/ OnFrame

SpecRSVPEvents == RSVPEventsInit /\ [][RSVPEventsNext]_vars

\* ------------------------------------------------ num2pos: the trial loop

MaxTrials == 2
MaxFrames == 2

\* the objects that exp_info.numberline, exp_info.trajtracker and add_validator
\* append to _trajectory_sensitive_objects
TrajectoryObjects == {"numberline", "trajtracker", "validator_inst_speed"}

\* the lists of objects after the experiment's objects were created: the
\* number line and any of the others, in the order of the assignments
ObjectLists ==
    {objs \in UNION {[1..n -> TrajectoryObjects] : n \in 1..Cardinality(TrajectoryObjects)} :
        /\ \A i, j \in DOMAIN objs : objs[i] = objs[j] => i = j
        /\ \E i \in DOMAIN objs : objs[i] = "numberline"}

\* what an object's update_xyt does: it returns None, returns an
\* ExperimentError, or raises
UpdateOutcomes == {"none", "error", "raise"}

\* what start_point.wait_until_exit and the time of the exit amount to
MoveOutcomes == {"moved", "aborted", "error", "timeout", "too_early"}

\* a call that the trial loop makes
Made(call, obj) == [call |-> call, obj |-> obj]

RECURSIVE ResetAll(_)
\* for obj in exp_info.trajectory_sensitive_objects: obj.reset(0)
ResetAll(objs) ==
    IF objs = <<>> THEN <<>> ELSE <<Made("reset", Head(objs))>> \o ResetAll(Tail(objs))

\* mutant of OnFingerTouchedScreenCalls: the objects are reset before the
\* event is dispatched, and the number line is left to initialize_trial
ResetValidatorsThenDispatch(objs) ==
    ResetAll(SelectSeq(objs, LAMBDA obj : obj # "numberline"))
        \o <<Made("dispatch_event", "TRIAL_STARTED")>>

\* on_finger_touched_screen: the calls it makes, in order
OnFingerTouchedScreenCalls(objs) ==
    <<Made("dispatch_event", "TRIAL_STARTED")>> \o ResetAll(objs)

\* the calls obj.update_xyt for the objects at the places from to to
Updates(objs, from, to) == [i \in 1..(to - from + 1) |-> Made("update_xyt", objs[from + i - 1])]

\* mutant of UpdateMovement: every object is updated before the first error
\* is returned
UpdateMovementUpdatesAll(objs, outcomes) ==
    LET failing == {i \in DOMAIN objs : outcomes[objs[i]] # "none"}
        first == CHOOSE i \in failing : \A j \in failing : i <= j
    IN  IF failing = {}
        THEN [calls |-> Updates(objs, 1, Len(objs)) \o <<Made("on_frame", "event_manager")>>,
              raised |-> "none", ret |-> None]
        ELSE IF outcomes[objs[first]] = "raise"
        THEN [calls |-> Updates(objs, 1, first), raised |-> "Exception", ret |-> None]
        ELSE [calls |-> Updates(objs, 1, Len(objs)), raised |-> "none",
              ret |-> Some(objs[first])]

RECURSIVE UpdateMovement(_, _)
\* update_movement over the objects still to update: the calls it makes, what
\* it raises and what it returns (the object whose error it is, or None)
UpdateMovement(objs, outcomes) ==
    IF objs = <<>>
    THEN [calls |-> <<Made("on_frame", "event_manager")>>, raised |-> "none", ret |-> None]
    ELSE LET obj == Head(objs)
             update == Made("update_xyt", obj)
         IN  IF outcomes[obj] = "raise"
             THEN [calls |-> <<update>>, raised |-> "Exception", ret |-> None]
             ELSE IF outcomes[obj] = "error"
             THEN [calls |-> <<update>>, raised |-> "none", ret |-> Some(obj)]
             ELSE LET rest == UpdateMovement(Tail(objs), outcomes)
                  IN  [rest EXCEPT !.calls = <<update>> \o @]

\* the objects that a sequence of calls resets, or updates
ObjectsOf(calls, call) == {calls[i].obj : i \in {j \in DOMAIN calls : calls[j].call = call}}

\* the number of frames of the current trial
Frames(calls) == Cardinality({j \in DOMAIN calls : calls[j].call = "present"})

\* mutant of TrialFailed: no event is dispatched
TrialFailedWithoutEvent == <<>>

\* trial_failed: the event it dispatches
TrialFailed == <<Made("dispatch_event", "TRIAL_FAILED")>>

\* the experiment's objects were created and run_trials begins
RunInit ==
    /\ component = "run"
    /\ trajectory_sensitive_objects \in ObjectLists
    /\ pc = "initialize_trial"
    /\ trials_run = 0
    /\ trace = <<>>
    /\ stale = {}
    /\ last = Call("init", None, "none", None)
    /\ enabled = TRUE
    /\ SpeedIdle /\ GradientIdle /\ NumberLineIdle /\ SchedulerIdle /\ RSVPIdle /\ TrialsIdle

\* run_trials calls run_trial, which calls initialize_trial and waits for the
\* finger to touch the start point (at most MaxTrials trials are run)
InitializeTrial ==
    /\ pc = "initialize_trial"
    /\ trials_run < MaxTrials
    /\ trials_run' = trials_run + 1
    /\ trace' = <<Made("reset", "numberline"), Made("dispatch_event", "TRIAL_INITIALIZED")>>
    /\ stale' = stale \ {"numberline"}
    /\ pc' = "on_finger_touched_screen"
    /\ last' = Call("initialize_trial", None, "none", None)
    /\ run_trial_rc' = None
    /\ UNCHANGED <<trajectory_sensitive_objects, schedVars, rsvpVars, queueVars>>
    /\ UNCHANGED <<component, smVars, cfgVars, interval_changed, gradientVars, lineVars>>

\* on_finger_touched_screen
OnFingerTouchedScreen ==
    /\ pc = "on_finger_touched_screen"
    /\ LET calls == OnFingerTouchedScreenCalls(trajectory_sensitive_objects)
       IN  /\ trace' = trace \o calls
           /\ stale' = stale \ ObjectsOf(calls, "reset")
    /\ pc' = "wait_until_finger_moves"
    /\ last' = Call("on_finger_touched_screen", None, "none", None)
    /\ UNCHANGED <<trajectory_sensitive_objects, trials_run, schedVars, rsvpVars, trialsVars>>
    /\ UNCHANGED <<component, smVars, cfgVars, interval_changed, gradientVars, lineVars>>

\* wait_until_finger_moves, and what run_trial and run_trials do with its result
WaitUntilFingerMoves(state) ==
    /\ pc = "wait_until_finger_moves"
    /\ IF state = "moved"
       THEN /\ trace' = trace \o <<Made("dispatch_event", "FINGER_STARTED_MOVING")>>
            /\ pc' = "frame"
            /\ last' = Call("wait_until_finger_moves", None, "none", None)
            /\ run_trial_rc' = None
       ELSE IF state = "aborted"
       THEN /\ trace' = trace
            /\ pc' = "initialize_trial"
            /\ last' = Call("wait_until_finger_moves", None, "none", Some("Aborted"))
            /\ run_trial_rc' = Some("Aborted")
       ELSE /\ trace' = trace \o TrialFailed
            /\ pc' = "initialize_trial"
            /\ last' = Call("wait_until_finger_moves", None, "none", Some("Failed"))
            /\ run_trial_rc' = Some("Failed")
    /\ UNCHANGED <<trajectory_sensitive_objects, trials_run, stale, schedVars, rsvpVars,
                   queueVars>>
    /\ UNCHANGED <<component, smVars, cfgVars, interval_changed, gradientVars, lineVars>>

\* one round of run_trial's loop: the finger is still pressed or not, what
\* each object's update_xyt does, whether the number line was touched and
\* whether that was too early (at most MaxFrames frames per trial)
Frame(pressed, outcomes, touched, too_fast) ==
    /\ pc = "frame"
    /\ Frames(trace) < MaxFrames
    /\ IF ~pressed
       THEN /\ trace' = trace \o <<Made("present", "stimuli")>> \o TrialFailed
            /\ stale' = stale
            /\ pc' = "initialize_trial"
            /\ last' = Call("finger_lifted", None, "none", Some("Failed"))
            /\ run_trial_rc' = Some("Failed")
       ELSE LET r == UpdateMovement(trajectory_sensitive_objects, outcomes)
                frame == <<Made("present", "stimuli")>> \o r.calls
            IN  /\ stale' = stale \cup ObjectsOf(r.calls, "update_xyt")
                /\ last' = Call("update_movement", Some(outcomes), r.raised, r.ret)
                /\ IF r.raised # "none"
                   THEN trace' = trace \o frame /\ pc' = "done" /\ run_trial_rc' = None
                   ELSE IF r.ret # None \/ (touched /\ too_fast)
                   THEN /\ trace' = trace \o frame \o TrialFailed
                        /\ pc' = "initialize_trial"
                        /\ run_trial_rc' = Some("Failed")
                   ELSE IF touched
                   THEN /\ trace' = trace \o frame \o <<Made("dispatch_event", "TRIAL_SUCCEEDED")>>
                        /\ pc' = "initialize_trial"
                        /\ run_trial_rc' = Some("Succeeded")
                   ELSE trace' = trace \o frame /\ pc' = "frame" /\ run_trial_rc' = None
    /\ UNCHANGED <<trajectory_sensitive_objects, trials_run, schedVars, rsvpVars, queueVars>>
    /\ UNCHANGED <<component, smVars, cfgVars, interval_changed, gradientVars, lineVars>>

RunNext ==
    \/ InitializeTrial
    \/ OnFingerTouchedScreen
    \/ \E state \in MoveOutcomes : WaitUntilFingerMoves(state)
    \/ \E pressed \in BOOLEAN, outcomes \in [TrajectoryObjects -> UpdateOutcomes],
          touched \in BOOLEAN, too_fast \in BOOLEAN :
          Frame(pressed, outcomes, touched, too_fast)

SpecRun == RunInit /\ [][RunNext]_vars

\* ---------------------------------------------- num2pos: the queue of trials

MaxConfigs == 3
MaxFailed == 2

\* what run_trial returns
RunTrialResult == {"Succeeded", "Failed", "Aborted"}

\* the trial configurations of the data file, as their places in it
InitialTrials(n) == [i \in 1..n |-> i]

\* random.shuffle(exp_info.trials): every order of the queue
Permutations(queue) ==
    {q \in [DOMAIN queue -> {queue[i] : i \in DOMAIN queue}] :
        \E f \in [DOMAIN queue -> DOMAIN queue] :
            /\ \A i, j \in DOMAIN queue : f[i] = f[j] => i = j
            /\ \A i \in DOMAIN queue : q[i] = queue[f[i]]}

\* the queue after "if exp_info.config.shuffle_trials: random.shuffle(...)"
Shuffled(queue, shuffle) == IF shuffle THEN Permutations(queue) ELSE {queue}

\* mutant of TrialsAfter: an aborted trial is put back as a failed one is
TrialsAfterRequeuesAborted(queue, config, rc, shuffle) ==
    IF rc \in {"Failed", "Aborted"} THEN Shuffled(Append(queue, config), shuffle) ELSE {queue}

\* the queues that the loop's body may leave, given what run_trial returned
TrialsAfter(queue, config, rc, shuffle) ==
    IF rc = "Failed" THEN Shuffled(Append(queue, config), shuffle) ELSE {queue}

\* mutant of TrialNumAfter: the number advances after an aborted trial too
TrialNumAfterAnyTrial(num, rc) == num + 1

\* trial_num after the loop's body ("continue" comes before "trial_num += 1")
TrialNumAfter(num, rc) == IF rc = "Aborted" THEN num ELSE num + 1

\* exp_data after the loop's body
ExpDataAfter(data, rc) ==
    IF rc = "Aborted" THEN data
    ELSE [nTrialsCompleted |-> data.nTrialsCompleted + 1,
          nTrialsSucceeded |-> data.nTrialsSucceeded + (IF rc = "Succeeded" THEN 1 ELSE 0),
          nTrialsFailed |-> data.nTrialsFailed + (IF rc = "Failed" THEN 1 ELSE 0)]

\* run_trials up to "trial_num = 1": the data file had 1 to MaxConfigs trials,
\* the counters are those of create_experiment_objects
RunTrialsInit ==
    /\ component = "run_trials"
    /\ shuffle_trials \in BOOLEAN
    /\ \E n \in 1..MaxConfigs : trials \in Shuffled(InitialTrials(n), shuffle_trials)
    /\ trial_config = None
    /\ trial_num = 1
    /\ exp_data = [nTrialsCompleted |-> 0, nTrialsSucceeded |-> 0, nTrialsFailed |-> 0]
    /\ run_trials_pc = "loop"
    /\ run_trial_rc = None
    /\ history = <<>>
    /\ last = Call("init", None, "none", None)
    /\ enabled = TRUE
    /\ SpeedIdle /\ GradientIdle /\ NumberLineIdle /\ RunIdle /\ SchedulerIdle /\ RSVPIdle

\* mutant of Pop: the first configuration is read and left in the queue
PopLeaves(queue) == [config |-> Head(queue), rest |-> queue]

\* exp_info.trials.pop(0)
Pop(queue) == [config |-> Head(queue), rest |-> Tail(queue)]

\* while len(exp_info.trials) > 0: trial_config = exp_info.trials.pop(0), and
\* run_trial is called
NextTrial ==
    /\ run_trials_pc = "loop"
    /\ trials # <<>>
    /\ trial_config' = Some(Pop(trials).config)
    /\ trials' = Pop(trials).rest
    /\ run_trials_pc' = "run_trial"
    /\ last' = Call("pop", None, "none", None)
    /\ UNCHANGED <<shuffle_trials, trial_num, exp_data, history, run_trial_rc, runVars,
                   schedVars, rsvpVars>>
    /\ UNCHANGED <<component, smVars, cfgVars, interval_changed, gradientVars, lineVars>>

\* run_trial has returned rc: the rest of the loop's body (at most MaxFailed
\* failed trials are counted)
RunTrial(rc) ==
    /\ run_trials_pc = "run_trial"
    /\ rc = "Failed" => exp_data.nTrialsFailed < MaxFailed
    /\ trials' \in TrialsAfter(trials, Val(trial_config), rc, shuffle_trials)
    /\ trial_num' = TrialNumAfter(trial_num, rc)
    /\ exp_data' = ExpDataAfter(exp_data, rc)
    /\ history' = Append(history, [trial_num |-> trial_num, config |-> Val(trial_config),
                                   rc |-> rc])
    /\ trial_config' = None
    /\ run_trials_pc' = "loop"
    /\ last' = Call("run_trial", None, "none", Some(rc))
    /\ run_trial_rc' = Some(rc)
    /\ UNCHANGED <<shuffle_trials, runVars, schedVars, rsvpVars>>
    /\ UNCHANGED <<component, smVars, cfgVars, interval_changed, gradientVars, lineVars>>

\* the queue is empty and run_trials returns
ReturnFromRunTrials ==
    /\ run_trials_pc = "loop"
    /\ trials = <<>>
    /\ run_trials_pc' = "returned"
    /\ last' = Call("run_trials", None, "none", None)
    /\ UNCHANGED <<trials, shuffle_trials, trial_config, trial_num, exp_data, history,
                   run_trial_rc, runVars, schedVars, rsvpVars>>
    /\ UNCHANGED <<component, smVars, cfgVars, interval_changed, gradientVars, lineVars>>

RunTrialsNext ==
    \/ NextTrial
    \/ \E rc \in RunTrialResult : RunTrial(rc)
    \/ ReturnFromRunTrials

SpecRunTrials == RunTrialsInit /\ [][RunTrialsNext]_vars

\* run_trial has returned rc: what the loop's body does to the queue. The
\* counters and the trial number, which grow with every failed trial, are
\* left out, so that a trial may fail any number of times
RunTrialQueue(rc) ==
    /\ run_trials_pc = "run_trial"
    /\ trials' \in TrialsAfter(trials, Val(trial_config), rc, shuffle_trials)
    /\ trial_config' = None
    /\ run_trials_pc' = "loop"
    /\ last' = Call("run_trial", None, "none", Some(rc))
    /\ run_trial_rc' = Some(rc)
    /\ UNCHANGED <<shuffle_trials, trial_num, exp_data, history, runVars, schedVars, rsvpVars>>
    /\ UNCHANGED <<component, smVars, cfgVars, interval_changed, gradientVars, lineVars>>

RunTrialsQueueNext ==
    \/ NextTrial
    \/ \E rc \in RunTrialResult : RunTrialQueue(rc)
    \/ ReturnFromRunTrials

\* every call of run_trial returns and the loop goes on
SpecRunTrialsQueue ==
    RunTrialsInit /\ [][RunTrialsQueueNext]_vars /\ WF_vars(RunTrialsQueueNext)

\* --------------------------------------------------- the objects side by side

\* the trial start times given to reset here
ComponentResetTimes == {None, Some(0), Some(1)}

\* one of the objects is constructed; the speed validator validates the y speed
InitComponents ==
    \/ /\ Init
       /\ axis = "y" /\ max_speed = None /\ grace_period = 0
    \/ GradientInit
    \/ NumberLineInit

NextComponents ==
    \/ component = "speed" /\ \E time \in ComponentResetTimes : Reset(time)
    \/ component = "speed" /\ \E y \in StartYs, t \in Times : UpdateXYT(0, y, t)
    \/ component \in {"speed", "gradient"} /\ \E value \in BOOLEAN : SetEnabled(value)
    \/ component = "gradient" /\ GradientReset
    \/ component = "gradient" /\ \E color \in ColorsAt : GradientUpdateXYT(color)
    \/ component = "gradient" /\ SetSingleColor
    \/ component = "numberline" /\ NumberLineReset
    \/ component = "numberline" /\ \E x \in Coords, y \in Coords : NumberLineUpdateXYT(x, y)

SpecComponents == InitComponents /\ [][NextComponents]_vars

\* ------------------------------------------------------------------ claims

Newest == recent_points[Len(recent_points)]

\* the last call was an update that went through the speed monitor's time check
Pushed == last.op = "update" /\ enabled /\ last.raised # "InvalidStateError"

\* some sample pushed since the last reset is no longer in the window
EvictionOccurred == recent_points # <<>> /\ recent_points[1].n > 1

\* recent_points is a suffix of the earlier window followed by one new sample
IsSuffixPlusOne(old, new) ==
    /\ Len(new) >= 1
    /\ Len(new) - 1 <= Len(old)
    /\ SubSeq(new, 1, Len(new) - 1) = SubSeq(old, Len(old) - Len(new) + 2, Len(old))

\* C1: an update with a time smaller than the previous sample's time (or than
\* t0 when the window is empty) raises InvalidStateError, returns no verdict
\* and leaves window, pre-window sample and t0 unchanged; an equal or larger
\* time does not raise it.
C1_OutOfOrderTimeRaises ==
    [][ (last'.op = "update" /\ enabled) =>
          LET prev == PrevTime(recent_points, time0)
          IN  IF prev # None /\ Val(last'.t) < Val(prev)
              THEN /\ last'.raised = "InvalidStateError"
                   /\ last'.ret = None
                   /\ UNCHANGED <<recent_points, pre_recent_point, time0>>
              ELSE last'.raised # "InvalidStateError" ]_vars

C1_Witness ==
    /\ last.op = "update" /\ last.raised = "InvalidStateError"
    /\ enabled /\ min_speed # None
    /\ recent_points # <<>> /\ pre_recent_point # None

\* C2: the window keeps its samples in push order with non-decreasing times,
\* and after every push it is the tail of the earlier window followed by the
\* sample just pushed, so the newest sample is never evicted.
C2_WindowOrderedNewestKept ==
    [][ /\ \A i \in 1..(Len(recent_points') - 1) :
              /\ recent_points'[i].t <= recent_points'[i + 1].t
              /\ recent_points'[i].n < recent_points'[i + 1].n
        /\ \A x \in Xs, y \in Ys :
              (Pushed' /\ UpdateXYT(x, y, Val(last'.t))) =>
                  /\ IsSuffixPlusOne(recent_points, recent_points')
                  /\ Newest'.x = x /\ Newest'.y = y /\ Newest'.t = Val(last'.t)
                  /\ Newest'.n = NextOrdinal(recent_points, pre_recent_point) ]_vars

C2_Witness ==
    /\ Pushed
    /\ calculation_interval = 0 /\ ~interval_changed
    /\ pre_recent_point # None
    /\ Len(recent_points) = 1
    /\ Val(pre_recent_point).t = Newest.t

\* C3: the pre-window sample is the one pushed immediately before the oldest
\* sample of the window, its time is at most that of every retained sample,
\* and within a trial it is only replaced by a sample pushed later.
C3_PreWindowIsLastEvicted ==
    [][ /\ pre_recent_point' # None =>
              /\ recent_points' # <<>>
              /\ Val(pre_recent_point').n + 1 = recent_points'[1].n
              /\ \A i \in 1..Len(recent_points') :
                    Val(pre_recent_point').t <= recent_points'[i].t
        /\ (pre_recent_point # None /\ pre_recent_point' # None
                /\ pre_recent_point' # pre_recent_point) =>
              Val(pre_recent_point').n > Val(pre_recent_point).n ]_vars

C3_Witness ==
    /\ pre_recent_point # None
    /\ Val(pre_recent_point).n = 2
    /\ calculation_interval = 0 /\ ~interval_changed

\* the queries on the current monitor state
last_interval == LastCalculationInterval(recent_points, pre_recent_point)
time_in_trial == TimeInTrial(recent_points, time0)
x_speed == XSpeed(recent_points, pre_recent_point, units_per_mm)
y_speed == YSpeed(recent_points, pre_recent_point, units_per_mm)
xy_speed == XYSpeed(recent_points, pre_recent_point, units_per_mm)

\* what the claims measure between the pre-window sample and the newest one
Elapsed == Newest.t - Val(pre_recent_point).t
NetX == Newest.x - Val(pre_recent_point).x
NetY == Newest.y - Val(pre_recent_point).y
PathLen == SumDist(recent_points)

\* the speed s is the rational n / d
RatEq(s, n, d) == s.kind = "num" /\ d # 0 /\ s.num * d = n * s.den

IsNumber(o) == o # None /\ Val(o).kind = "num"

\* C4 (as stated): all five queries are None until the first eviction since
\* reset and are numbers after it.
C4_Original ==
    IF EvictionOccurred
    THEN /\ last_interval # None /\ time_in_trial # None
         /\ IsNumber(x_speed) /\ IsNumber(y_speed) /\ IsNumber(xy_speed)
    ELSE /\ last_interval = None /\ time_in_trial = None
         /\ x_speed = None /\ y_speed = None /\ xy_speed = None

\* C4 (amended): last_interval and the three speeds are None exactly until
\* the first eviction since reset; after it last_interval is a number >= 0 and
\* each speed is a number when last_interval > 0 (with last_interval = 0 the
\* division by it fails); time_in_trial is None exactly until the first push.
C4_QueriesNoneUntilEviction ==
    /\ (last_interval = None) <=> ~EvictionOccurred
    /\ (x_speed = None) <=> ~EvictionOccurred
    /\ (y_speed = None) <=> ~EvictionOccurred
    /\ (xy_speed = None) <=> ~EvictionOccurred
    /\ EvictionOccurred =>
          /\ Val(last_interval) >= 0
          /\ Val(last_interval) > 0 =>
                IsNumber(x_speed) /\ IsNumber(y_speed) /\ IsNumber(xy_speed)
          /\ Val(last_interval) = 0 =>
                ~IsNumber(x_speed) /\ ~IsNumber(y_speed) /\ ~IsNumber(xy_speed)
    /\ (time_in_trial = None) <=> (recent_points = <<>>)

C4_Witness ==
    /\ Pushed /\ EvictionOccurred
    /\ Val(last_interval) > 0
    /\ Len(recent_points) = 2
    /\ time_in_trial = Some(2)

\* C5: with calculation_interval unchanged since reset, last_interval is at
\* least calculation_interval whenever it is defined.
C5_IntervalAtLeastConfigured ==
    (~interval_changed /\ last_interval # None) =>
        Val(last_interval) >= calculation_interval

C5_Witness ==
    /\ Pushed /\ ~interval_changed
    /\ calculation_interval = 2
    /\ last_interval = Some(2)
    /\ Len(recent_points) = 2

\* C6: whenever the three speeds are numbers, xy_speed >= |x_speed| and
\* xy_speed >= |y_speed|.
C6_PathSpeedDominates ==
    (IsNumber(x_speed) /\ IsNumber(y_speed) /\ IsNumber(xy_speed)) =>
        LET xs == Val(x_speed)
            ys == Val(y_speed)
            xy == Val(xy_speed)
        IN  /\ xy.num * xs.den >= Abs(xs.num) * xy.den
            /\ xy.num * ys.den >= Abs(ys.num) * xy.den

C6_Witness ==
    /\ Pushed /\ pre_recent_point # None
    /\ Len(recent_points) = 2
    /\ Elapsed > 0
    /\ NetX = 0 /\ NetY # 0
    /\ PathLen > DistScale * Abs(NetY)

\* the update was made after the grace period and with the window full
Validated ==
    /\ Pushed
    /\ time_in_trial # None /\ Val(time_in_trial) > grace_period
    /\ last_interval # None

\* the speed of the selected axis, from the samples
SelectedSpeed ==
    IF axis = "x" THEN Val(x_speed) ELSE IF axis = "y" THEN Val(y_speed) ELSE Val(xy_speed)

\* the verdict C7 describes for the speed s
VerdictFor(s) ==
    IF min_speed # None /\ SpeedLess(s, Val(min_speed))
    THEN ExperimentError(err_too_slow, s)
    ELSE IF max_speed # None /\ SpeedGreater(s, Val(max_speed))
    THEN ExperimentError(err_too_fast, s)
    ELSE None

\* C7: every update made after the grace period with the window full returns
\* TooSlowInstantaneous if min_speed is set and speed < min_speed, otherwise
\* TooFast if max_speed is set and speed > max_speed, otherwise Pass; the
\* error carries the observed speed.
C7_Original ==
    Validated => (last.raised = "none" /\ last.ret = VerdictFor(SelectedSpeed))

\* C7 where the elapsed time is positive: the verdict is as described
C7_VerdictWhenElapsedPositive ==
    (Validated /\ Val(last_interval) > 0) =>
        (last.raised = "none" /\ last.ret = VerdictFor(SelectedSpeed))

C7_BothBoundsViolated ==
    /\ Validated /\ Val(last_interval) > 0
    /\ min_speed = Some(2) /\ max_speed = Some(1)
    /\ SpeedLess(SelectedSpeed, 2) /\ SpeedGreater(SelectedSpeed, 1)

\* C8: the speed an error reports is, for axis x (y), the x (y) difference
\* between the pre-window sample and the newest sample over the elapsed time,
\* whatever the movement along the other axis, and for axis xy the summed step
\* distances of the window over that time; the verdict is taken on that speed.
\* Instance: axis y, min_speed 1, interval 0, samples (0,0,0), (0,1,1),
\* (0,1.5,2) in mm: pass, pass, TooSlowInstantaneous with speed 1/2.
InstanceConfig ==
    /\ enabled /\ axis = "y" /\ min_speed = Some(1) /\ max_speed = None
    /\ grace_period = 0 /\ calculation_interval = 0 /\ ~interval_changed
    /\ units_per_mm = 2 /\ time0 = Some(0)

InstanceSecond ==
    /\ InstanceConfig /\ Pushed /\ pre_recent_point # None /\ Len(recent_points) = 1
    /\ Val(pre_recent_point).n = 1 /\ Val(pre_recent_point).t = 0
    /\ Val(pre_recent_point).x = 0 /\ Val(pre_recent_point).y = 0
    /\ Newest.t = 1 /\ Newest.x = 0 /\ Newest.y = 2

InstanceThird ==
    /\ InstanceConfig /\ Pushed /\ pre_recent_point # None /\ Len(recent_points) = 1
    /\ Val(pre_recent_point).n = 2 /\ Val(pre_recent_point).t = 1
    /\ Val(pre_recent_point).x = 0 /\ Val(pre_recent_point).y = 2
    /\ Newest.t = 2 /\ Newest.x = 0 /\ Newest.y = 3

C8_SpeedByAxis ==
    /\ (Pushed /\ last.ret # None) =>
          /\ pre_recent_point # None
          /\ axis = "x" => RatEq(Val(last.ret).speed, NetX, units_per_mm * Elapsed)
          /\ axis = "y" => RatEq(Val(last.ret).speed, NetY, units_per_mm * Elapsed)
          /\ axis = "xy" =>
                IF Elapsed > 0
                THEN RatEq(Val(last.ret).speed, PathLen, DistScale * units_per_mm * Elapsed)
                ELSE Val(last.ret).speed.kind = "inf" /\ PathLen > 0
    /\ (Validated /\ Elapsed > 0 /\ min_speed # None) =>
          LET bound == Val(min_speed) * units_per_mm * Elapsed
              slow == IF axis = "x" THEN NetX < bound
                      ELSE IF axis = "y" THEN NetY < bound
                      ELSE PathLen < bound * DistScale
          IN  slow <=> (last.ret # None /\ Val(last.ret).err_code = err_too_slow)
    /\ (Validated /\ Elapsed > 0 /\ min_speed = None /\ max_speed # None) =>
          LET bound == Val(max_speed) * units_per_mm * Elapsed
              fast == IF axis = "x" THEN NetX > bound
                      ELSE IF axis = "y" THEN NetY > bound
                      ELSE PathLen > bound * DistScale
          IN  fast <=> (last.ret # None /\ Val(last.ret).err_code = err_too_fast)
    /\ (InstanceConfig /\ Pushed /\ Newest.n = 1) => last.ret = None
    /\ InstanceSecond => last.ret = None
    /\ InstanceThird =>
          /\ last.ret # None
          /\ Val(last.ret).err_code = err_too_slow
          /\ RatEq(Val(last.ret).speed, 1, 2)

C8_Witness == InstanceThird

\* C9: no update whose time_in_trial is <= grace_period returns an error,
\* whatever the speed; an update with time_in_trial > grace_period is
\* validated as it would be without a grace period.
C9_GracePeriod ==
    Pushed =>
        /\ time_in_trial # None
        /\ Val(time_in_trial) <= grace_period =>
              (last.ret = None /\ last.raised = "none")
        /\ Val(time_in_trial) > grace_period =>
              [raised |-> last.raised, ret |-> last.ret]
                  = Validate(recent_points, pre_recent_point, time0, units_per_mm,
                             axis, min_speed, max_speed, 0)

C9_Witness ==
    /\ Pushed /\ grace_period = 1 /\ time_in_trial = Some(1)
    /\ pre_recent_point # None /\ Elapsed > 0
    /\ axis = "y" /\ min_speed = Some(1)
    /\ NetY < units_per_mm * Elapsed
    /\ last.ret = None

\* every sample ever pushed since the last reset is still the pre-window
\* sample or in the window
KnownAll ==
    /\ recent_points # <<>>
    /\ IF pre_recent_point = None THEN recent_points[1].n = 1
       ELSE Val(pre_recent_point).n = 1

\* none of the retained earlier samples is calculation_interval older than the newest
NoSampleOldEnough ==
    /\ pre_recent_point # None =>
          Val(pre_recent_point).t > Newest.t - calculation_interval
    /\ \A i \in 1..(Len(recent_points) - 1) :
          recent_points[i].t > Newest.t - calculation_interval

trialVars == <<recent_points, pre_recent_point, time0, last_color,
               last_mouse_coord, last_touched_coord, initial_mouse_dir>>
configVars == <<units_per_mm, calculation_interval, cfgVars, gradientCfgVars,
                colors_calculated, min_available_color, max_available_color, lineCfgVars>>

IsValidator == component \in {"speed", "gradient"}

\* C11: while a validator (InstantaneousSpeedValidator or
\* MoveByGradientValidator) is disabled, update returns Pass, raises nothing and
\* leaves the speed window, the pre-window sample, t0 and the remembered color
\* as they were, so a later verdict is taken on a state no disabled sample
\* has entered.
C11_DisabledUpdateIsNoOp ==
    [][ (IsValidator /\ ~enabled /\ last'.op = "update") =>
          /\ last'.raised = "none"
          /\ last'.ret = None
          /\ UNCHANGED <<trialVars, configVars, enabled>> ]_vars

C11_Witness ==
    /\ component = "speed" /\ ~enabled
    /\ last.op = "update"
    /\ pre_recent_point # None /\ Len(recent_points) = 1
    /\ Val(last.t) < Newest.t

\* C12: reset is idempotent for SpeedMonitor, InstantaneousSpeedValidator,
\* MoveByGradientValidator and NumberLine: a reset that follows a reset with
\* the same argument changes nothing.
C12_ResetIdempotent ==
    [][ (last.op = "reset" /\ last'.op = "reset" /\ time0' = time0) =>
          UNCHANGED <<trialVars, configVars, enabled, feedback_stim,
                      interval_changed, seen, mouse>> ]_vars

C12_Witness ==
    /\ component = "numberline" /\ last.op = "reset"
    /\ feedback_stim # None /\ Val(feedback_stim).visible
    /\ last_touched_coord = None /\ initial_mouse_dir = None

\* C13: after reset the per-trial state is that of a freshly constructed
\* object with the same configuration (t0 being the time given to reset): the
\* window and the pre-window sample are empty, the remembered color, the
\* touched coordinate and the approach sign are cleared and the configuration
\* is untouched.  The first update after it therefore passes, measures from
\* itself alone, is accepted whatever the times before the reset were, seeds
\* the color memory and only records the approach sign.
C13_ResetStartsFreshTrial ==
    [][ /\ last'.op = "reset" =>
              /\ recent_points' = <<>> /\ pre_recent_point' = None
              /\ time_in_trial' = None /\ last_interval' = None
              /\ last_color' = None
              /\ last_mouse_coord' = None /\ last_touched_coord' = None
              /\ initial_mouse_dir' = None
              /\ UNCHANGED <<configVars, enabled>>
        /\ (last.op = "reset" /\ last'.op = "update" /\ component = "speed" /\ enabled) =>
              IF time0 # None /\ Val(last'.t) < Val(time0)
              THEN last'.raised = "InvalidStateError"
              ELSE /\ last'.raised = "none" /\ last'.ret = None
                   /\ pre_recent_point' = None
                   /\ Len(recent_points') = 1
                   /\ recent_points'[1].t = Val(last'.t)
                   /\ recent_points'[1].d = 0
                   /\ recent_points'[1].n = 1
                   /\ time0' = (IF time0 = None THEN last'.t ELSE time0)
        /\ (last.op = "reset" /\ last'.op = "update" /\ component = "gradient" /\ enabled) =>
              /\ last'.raised = "none" /\ last'.ret = None
              /\ last_color' = seen'.color
        /\ (last.op = "reset" /\ last'.op = "update" /\ component = "numberline"
                /\ touch_directioned) =>
              /\ last_touched_coord' = None
              /\ initial_mouse_dir' # None ]_vars

C13_Witness ==
    /\ component = "numberline" /\ last.op = "update"
    /\ mouse.n = 1 /\ touch_directioned
    /\ feedback_stim # None /\ Val(feedback_stim).visible
    /\ last_touched_coord = None /\ initial_mouse_dir # None

\* the last call was an update of the enabled gradient validator
GradientUpdated == component = "gradient" /\ enabled /\ last.op = "update"

Passed == last.raised = "none" /\ last.ret = None

\* delta = (color - remembered) in the configured direction, for the last update
Delta ==
    (Val(seen.color) - Val(seen.remembered)) * (IF rgb_should_ascend THEN 1 ELSE -1)

\* C14: when no reference color is available at the sampled location, update
\* returns Pass (never GradientViolation) and forgets the remembered color; a
\* sample that has a color and finds nothing remembered passes whatever its
\* color and becomes the remembered color.
C14_NoColorPassesAndForgets ==
    [][ (component = "gradient" /\ enabled /\ last'.op = "update") =>
          /\ seen'.color = None => (Passed' /\ last_color' = None)
          /\ (seen'.color # None /\ last.op = "update" /\ seen.color = None) =>
                (last_color = None /\ Passed' /\ last_color' = seen'.color)
          /\ (seen'.color # None /\ last_color = None) =>
                (Passed' /\ last_color' = seen'.color) ]_vars

C14_Witness ==
    /\ GradientUpdated
    /\ seen.color = None /\ seen.remembered # None
    /\ last_color = None /\ Passed

\* C15: with a remembered color, if delta >= 0 the update passes and the new
\* color is remembered; if -max_valid_back_movement <= delta < 0 the update
\* passes and the remembered color is left unchanged.
C15_ForwardAndTolerated ==
    (GradientUpdated /\ seen.color # None /\ seen.remembered # None) =>
        /\ Delta >= 0 => (Passed /\ last_color = seen.color)
        /\ (-max_valid_back_movement <= Delta /\ Delta < 0) =>
              (Passed /\ last_color = seen.remembered)

C15_Witness ==
    /\ GradientUpdated /\ seen.color # None /\ seen.remembered # None
    /\ -max_valid_back_movement <= Delta /\ Delta < 0
    /\ last_color = seen.remembered /\ Passed

\* the last update found a wrong-direction delta beyond the tolerance
BeyondTolerance ==
    /\ GradientUpdated /\ seen.color # None /\ seen.remembered # None
    /\ Delta < -max_valid_back_movement

\* the range of the image's colors
ColorRange == SetMax(available_colors) - SetMin(available_colors)

\* the range is known and the delta is large enough to be taken as a wrap
WrapLike ==
    /\ cyclic
    /\ colors_calculated /\ min_available_color # None
    /\ Abs(Delta) >= cyclic_ratio * (ColorRange - Abs(Delta))

\* C16 (as stated): for a delta beyond the tolerance the update passes if and
\* only if cyclic is enabled, the image's color range is known and
\* |delta| >= cyclic_ratio * (range - |delta|); otherwise it fails with
\* GradientViolation.
C16_Original ==
    BeyondTolerance =>
        IF WrapLike THEN Passed
        ELSE last.raised = "none" /\ last.ret = GradientError

\* C16 where the color range was calculated or cyclic is off: the verdict is
\* as described, the remembered color moves only with a wrap, and the
\* calculated range is that of the image's colors
C16_VerdictWhenRangeCalculated ==
    /\ (colors_calculated /\ min_available_color # None) =>
          /\ available_colors # {}
          /\ Val(max_available_color) - Val(min_available_color) = ColorRange
    /\ (BeyondTolerance /\ (colors_calculated \/ ~cyclic)) =>
          IF WrapLike THEN Passed /\ last_color = seen.color
          ELSE /\ last.raised = "none" /\ last.ret = GradientError
               /\ last_color = seen.remembered

\* range 0-255, cyclic, cyclic_ratio 5: a delta of -250 does not fail
C16_WrapInstance ==
    /\ BeyondTolerance /\ cyclic /\ colors_calculated
    /\ min_available_color = Some(0) /\ max_available_color = Some(255)
    /\ Delta = -250
    /\ Passed /\ last_color = seen.color

\* the same image: a delta of -50 beyond max_valid_back_movement fails
C16_BackInstance ==
    /\ BeyondTolerance /\ cyclic /\ colors_calculated
    /\ min_available_color = Some(0) /\ max_available_color = Some(255)
    /\ Delta = -50
    /\ last.ret = GradientError

\* the offset of a sample from the line: positive when its coordinate is below
\* the line's
Offset(x, y) == LineCoord(orientation, mid_x, mid_y) - MouseCoord(orientation, x, y)

\* an update of a line that is not yet touched, with the approach sign recorded
LaterSample ==
    /\ component = "numberline" /\ touch_directioned
    /\ initial_mouse_dir # None /\ last_touched_coord = None
    /\ last'.op = "update"

\* the sample of the step lies on the side the approach sign was recorded on
OnApproachSide ==
    /\ Val(initial_mouse_dir) # 0
    /\ Sign(Offset(mouse'.x, mouse'.y)) = Val(initial_mouse_dir)

\* C17 (as stated): once the first sample after reset has established the
\* approach side, no later sample on that same side reports touched.
C17_Original ==
    [][ (LaterSample /\ OnApproachSide) => last_touched_coord' = None ]_vars

\* C17 (amended): with touch_distance <= 0 no later sample on the approach
\* side reports touched (nor any sample when the first one lay on the line);
\* with touch_distance > 0 a sample on the approach side reports touched
\* exactly when it is closer to the line than touch_distance.
C17_SameSideNotTouched ==
    [][ LaterSample =>
          /\ (touch_distance <= 0 /\ (OnApproachSide \/ Val(initial_mouse_dir) = 0)) =>
                last_touched_coord' = None
          /\ (touch_distance > 0 /\ OnApproachSide) =>
                ((last_touched_coord' # None) <=>
                    Abs(Offset(mouse'.x, mouse'.y)) < touch_distance) ]_vars

C17_Witness ==
    /\ component = "numberline" /\ touch_directioned /\ touch_distance = 0
    /\ last.op = "update" /\ mouse.n = MaxSamples
    /\ initial_mouse_dir = Some(-1)
    /\ Offset(mouse.x, mouse.y) = -1
    /\ last_touched_coord = None

\* C18: with directional locking, the first sample after reset only records
\* the sign of its offset from the line and never reports touched; from the
\* second sample on, touched is declared at the first sample whose offset
\* (line_coord - point_coord) multiplied by the recorded sign is strictly below
\* touch_distance, so with a negative touch_distance the point is past the
\* line by more than |touch_distance|.
C18_SignThenThreshold ==
    [][ (component = "numberline" /\ touch_directioned /\ last_touched_coord = None
            /\ last'.op = "update") =>
          LET distance == Offset(mouse'.x, mouse'.y)
          IN  IF mouse'.n = 1
              THEN /\ initial_mouse_dir = None
                   /\ initial_mouse_dir' = Some(Sign(distance))
                   /\ last_touched_coord' = None
              ELSE /\ initial_mouse_dir # None
                   /\ UNCHANGED initial_mouse_dir
                   /\ (last_touched_coord' # None) <=>
                         (distance * Val(initial_mouse_dir) < touch_distance)
                   /\ last_touched_coord' # None =>
                         last_touched_coord' =
                             Some(TouchCoord(orientation, mouse'.x, mouse'.y, mid_x, mid_y))
                   /\ (touch_distance < 0 /\ last_touched_coord' # None) =>
                         /\ Sign(distance) = -Val(initial_mouse_dir)
                         /\ Abs(distance) > -touch_distance ]_vars

C18_Witness ==
    /\ component = "numberline" /\ touch_directioned /\ touch_distance = -1
    /\ last.op = "update" /\ mouse.n = MaxSamples
    /\ initial_mouse_dir = Some(1)
    /\ Offset(mouse.x, mouse.y) = -2
    /\ last_touched_coord = Some(TouchCoord(orientation, mouse.x, mouse.y, mid_x, mid_y))

\* C19: once the line is touched its state is frozen until reset: every
\* update after the touch leaves touched, last_touched_coord, the approach
\* sign and the feedback stimulus unchanged, and touched goes back to false
\* only by reset, so it turns true at most once between two resets.
C19_FrozenOnceTouched ==
    [][ /\ (component = "numberline" /\ last_touched_coord # None /\ last'.op = "update") =>
              UNCHANGED <<last_touched_coord, initial_mouse_dir, feedback_stim,
                          last_mouse_coord, lineCfgVars>>
        /\ (last_touched_coord # None /\ last_touched_coord' # last_touched_coord) =>
              (last'.op = "reset" /\ last_touched_coord' = None) ]_vars

C19_Witness ==
    /\ component = "numberline" /\ touch_directioned /\ touch_distance = 0
    /\ last.op = "update" /\ mouse.n = MaxSamples
    /\ last_touched_coord # None
    /\ initial_mouse_dir = Some(1)
    /\ Offset(mouse.x, mouse.y) < 0
    /\ TouchCoord(orientation, mouse.x, mouse.y, mid_x, mid_y) # Val(last_touched_coord)
    /\ feedback_stim # None /\ Val(feedback_stim).visible

\* C20 (as stated): the initial approach sign is unset or exactly +1 or -1.
C20_Original ==
    initial_mouse_dir \in {None, Some(1), Some(-1)}

\* C20 for what the code records: the approach sign is unset, +1, -1 or 0, it
\* is set only under directional locking, and a sign of 0 with
\* touch_distance <= 0 leaves the line untouched
C20_SignOrZero ==
    /\ initial_mouse_dir \in {None, Some(1), Some(-1), Some(0)}
    /\ initial_mouse_dir # None => touch_directioned
    /\ (initial_mouse_dir = Some(0) /\ touch_distance <= 0) => last_touched_coord = None

\* the first sample lay exactly on the line
C20_ZeroSign ==
    /\ component = "numberline" /\ touch_directioned
    /\ last.op = "update" /\ mouse.n = 1
    /\ Offset(mouse.x, mouse.y) = 0
    /\ initial_mouse_dir = Some(0)

\* NumberLine.last_touched_value in the current state
last_touched_value == LastTouchedValue(last_touched_coord, line_length, min_value, max_value)

\* C21: last_touched_value is None exactly when no sample since the last reset
\* was found to touch the line; otherwise it is
\* (coord / line_length + 0.5) * (max_value - min_value) + min_value for the
\* touched coordinate coord, that is
\* ((2 * coord + line_length) * (max_value - min_value) + 2 * line_length * min_value)
\* / (2 * line_length).
C21_LastTouchedValue ==
    /\ (last_touched_value = None) <=> ~mouse.touched
    /\ mouse.touched =>
          /\ last_touched_coord # None
          /\ last_touched_value # None
          /\ RatEq(Val(last_touched_value),
                   (2 * Val(last_touched_coord) + line_length) * (max_value - min_value)
                       + 2 * line_length * min_value,
                   2 * line_length)

\* the line of length 4 from 10 to 100 was touched in its middle: the value is 55
C21_Witness ==
    /\ mouse.touched /\ last_touched_coord = Some(0)
    /\ line_length = 4 /\ min_value = 10 /\ max_value = 100
    /\ RatEq(Val(last_touched_value), 55, 1)

\* the properties that are locked by preload()
LockedProperties ==
    {"orientation", "position", "line_length", "line_width", "line_colour",
     "end_tick_height", "min_value", "max_value", "touch_distance", "touch_directioned"}

\* the stored value of a locked property
Stored(property) ==
    CASE property = "orientation" -> orientation
      [] property = "position" -> <<mid_x, mid_y>>
      [] property = "line_length" -> line_length
      [] property = "line_width" -> line_width
      [] property = "line_colour" -> line_colour
      [] property = "end_tick_height" -> end_tick_height
      [] property = "min_value" -> min_value
      [] property = "max_value" -> max_value
      [] property = "touch_distance" -> touch_distance
      [] property = "touch_directioned" -> touch_directioned

NewCalls == SubSeq(trace', Len(trace) + 1, Len(trace'))

\* the calls of update_movement among them
MovementCalls == SelectSeq(NewCalls, LAMBDA c : c.call \in {"update_xyt", "on_frame"})

\* the first object of the list whose update_xyt does not return None, or
\* one more than the length of the list
FirstFailing(objs, outcomes) ==
    LET failing == {i \in DOMAIN objs : outcomes[objs[i]] # "none"}
    IN  IF failing = {} THEN Len(objs) + 1
        ELSE CHOOSE i \in failing : \A j \in failing : i <= j

\* C27: update_movement updates the objects in the order of the list up to
\* the first one that returns an error (or raises); when one returns an
\* error, that error is returned, no later object is updated and on_frame is
\* not called; when none does, on_frame is called once, after the last
\* update, and None is returned.
C27_UpdateMovementOrder ==
    [][ last'.op = "update_movement" =>
          LET objs == trajectory_sensitive_objects
              outcomes == Val(last'.t)
              first == FirstFailing(objs, outcomes)
          IN  IF first > Len(objs)
              THEN /\ MovementCalls = Updates(objs, 1, Len(objs))
                                         \o <<Made("on_frame", "event_manager")>>
                   /\ last'.raised = "none" /\ last'.ret = None
              ELSE /\ MovementCalls = Updates(objs, 1, first)
                   /\ outcomes[objs[first]] = "error" =>
                         last'.raised = "none" /\ last'.ret = Some(objs[first]) ]_vars

\* the second of three objects returned an error: the third was not updated
\* and on_frame was not called
C27_Witness ==
    /\ last.op = "update_movement" /\ last.raised = "none"
    /\ Len(trajectory_sensitive_objects) = 3
    /\ last.ret = Some(trajectory_sensitive_objects[2])
    /\ Val(last.t)[trajectory_sensitive_objects[3]] = "error"
    /\ trajectory_sensitive_objects[2] \in ObjectsOf(trace, "update_xyt")
    /\ trajectory_sensitive_objects[3] \notin ObjectsOf(trace, "update_xyt")
    /\ ObjectsOf(trace, "on_frame") = {}

\* C28: an object is updated only after it was reset in the same trial, and
\* that reset came after TRIAL_STARTED was dispatched in this trial; no object
\* is updated while it has not been reset since its last update.
C28_ResetBeforeUpdate ==
    [][ \A j \in DOMAIN trace' :
          (j > Len(trace) /\ trace'[j].call = "update_xyt") =>
             /\ \E i \in 1..(j - 1) :
                   /\ trace'[i] = Made("reset", trace'[j].obj)
                   /\ \E k \in 1..(i - 1) : trace'[k] = Made("dispatch_event", "TRIAL_STARTED")
             /\ (\A i \in 1..(j - 1) : trace'[i] # trace'[j]) => trace'[j].obj \notin stale ]_vars

\* the second trial: the tracker, updated in the first trial, is updated again
C28_Witness ==
    /\ trials_run = 2 /\ last.op = "update_movement"
    /\ "trajtracker" \in ObjectsOf(trace, "update_xyt")
    /\ "trajtracker" \in stale

\* the RSVP is being shown: start_showing followed init_for_trial, and every
\* call since was start_showing or update_rsvp
Showing ==
    /\ component = "rsvp" /\ show_hide_operations # None /\ start_showing_time # None
    /\ last.op \in {"start_showing", "update_rsvp"} /\ last.raised = "none"

\* the time since the RSVP started
SinceStart == Val(last.t) - Val(start_showing_time)

\* the operations of the trial: stimulus i is shown at its onset time and
\* hidden when its duration is over, but for a last stimulus that remains
TrialOps ==
    {<<onset_time[i], TRUE, i>> : i \in 1..NStim}
    \cup {<<onset_time[i] + duration[i], FALSE, i>> :
             i \in {j \in 1..NStim : ~(last_stimulus_remains /\ j = NStim)}}

\* the operations scheduled up to SinceStart were applied, once each and in
\* the order of their times, and no other
AppliedDueOnce ==
    /\ {applied[k] : k \in DOMAIN applied} = {op \in TrialOps : op[1] <= SinceStart}
    /\ \A k, l \in DOMAIN applied :
          /\ k < l => applied[k][1] <= applied[l][1]
          /\ applied[k] = applied[l] => k = l

\* stimulus i is visible exactly from its onset to the end of its duration
VisibleInWindow(i) ==
    stimuli[i] <=> /\ onset_time[i] <= SinceStart
                   /\ \/ SinceStart < onset_time[i] + duration[i]
                      \/ last_stimulus_remains /\ i = NStim

\* C30: while the RSVP is shown, the operations scheduled up to the time
\* since its start were applied once each and in the order of their times,
\* no other was, and each stimulus is visible exactly within its window.
C30_Original ==
    Showing => AppliedDueOnce /\ \A i \in 1..NStim : VisibleInWindow(i)

\* the operations are applied as claimed, in every trial
C30_AppliedInOrder ==
    Showing => AppliedDueOnce

\* in a trial that begins with all stimuli invisible, each stimulus is
\* visible exactly within its window
C30_VisibleAfterInvisibleStart ==
    [][ /\ (last'.op = "init_for_trial" /\ last'.raised = "none") =>
             (applied' = <<>> /\ UNCHANGED <<rsvpCfgVars>>)
        /\ (Showing /\ Showing' /\ \A i \in 1..NStim : VisibleInWindow(i)) =>
             \A i \in 1..NStim : VisibleInWindow(i)' ]_vars

\* a second trial begins while the last stimulus of the first is still visible
C30_VisibleBeforeOnset ==
    /\ Showing /\ SinceStart = 0
    /\ NStim = 1 /\ onset_time[1] = 1 /\ last_stimulus_remains
    /\ applied = <<>> /\ stimuli[1]

\* how many times the action of the operation id has been invoked in the log
Invocations(log, id) == Cardinality({k \in DOMAIN log : log[k].id = id})

\* the invocations made by the step
NewInvoked == SubSeq(invoked', Len(invoked) + 1, Len(invoked'))

\* how many times the trigger of the Pending operation op occurs in the step
TriggerOccurs(op) ==
    IF op.state # "Pending" THEN 0
    ELSE IF last'.op = "notify" /\ last'.ret = Some(op.event) /\ op.offset = 0 THEN 1
    ELSE IF last'.op = "on_frame"
         THEN Cardinality({k \in DOMAIN op.due : op.due[k] <= clock'})
    ELSE 0

\* C23: the action of a non-recurring operation is invoked at most once,
\* exactly once when its trigger occurs while it is Pending, and the operation
\* is removed then, so that a later occurrence of the event does not invoke it;
\* a recurring operation is invoked once for each occurrence of its trigger.
C23_OncePerTrigger ==
    [][\A i \in DOMAIN operations :
        LET op == operations[i]
        IN  /\ Invocations(invoked', i) = Invocations(invoked, i) + TriggerOccurs(op)
            /\ ~op.recurring => /\ Invocations(invoked', i) <= 1
                                /\ TriggerOccurs(op) <= 1
                                /\ TriggerOccurs(op) = 1 => operations'[i].state = "Fired"
            /\ op.state # "Pending" => operations'[i].state = op.state]_vars

\* a non-recurring and a recurring operation on E; E has occurred twice, the
\* first was invoked once and the second twice
C23_Witness ==
    /\ component = "scheduler"
    /\ Len(operations) = 2
    /\ ~operations[1].recurring /\ operations[1].event = "E"
    /\ operations[2].recurring /\ operations[2].event = "E"
    /\ occurred["E"] = 2
    /\ operations[1].state = "Fired"
    /\ Invocations(invoked, 1) = 1
    /\ Invocations(invoked, 2) = 2

\* C24: an operation registered for E + offset that is cancelled on C fires
\* when its trigger becomes due while it is Pending (no C since it was
\* registered); when C is notified and the operation has not fired it becomes
\* Cancelled, and a Cancelled operation is never invoked. An operation at
\* E + 0.5 s fires one tick after the notification of E.
C24_CancelOn ==
    [][\A i \in DOMAIN operations :
        LET op == operations[i]
        IN  /\ op.state = "Pending" /\ op.cancel_on # None /\ last'.op = "notify"
               /\ last'.ret = op.cancel_on
               => IF op.event = Val(op.cancel_on) /\ op.offset = 0
                  THEN operations'[i].state = "Fired"
                  ELSE /\ operations'[i].state = "Cancelled"
                       /\ Invocations(invoked', i) = Invocations(invoked, i)
            /\ op.state = "Cancelled"
               => /\ operations'[i].state = "Cancelled"
                  /\ Invocations(invoked', i) = Invocations(invoked, i)
            /\ op.state = "Pending" /\ op.cancel_on # None /\ op.offset > 0
               => /\ last'.op = "notify" /\ last'.ret = Some(op.event)
                     /\ Some(op.event) # op.cancel_on /\ op.due = <<>>
                     => operations'[i].due = <<clock + op.offset>>
                  /\ last'.op = "on_frame" /\ op.due = <<clock'>>
                     => /\ operations'[i].state = "Fired"
                        /\ \E k \in DOMAIN NewInvoked :
                               NewInvoked[k] = [id |-> i, time |-> clock']
                        /\ Invocations(invoked', i) = 1]_vars

\* two operations at E + 0.5 s, cancelled on E_terminate: the first was
\* Cancelled before E occurred, the second fired at 2 s after E occurred
\* at 1.5 s
C24_Witness ==
    /\ component = "scheduler"
    /\ Len(operations) = 2
    /\ \A i \in 1..2 : /\ operations[i].event = "E"
                       /\ operations[i].offset * 2 = TicksPerSecond
                       /\ operations[i].cancel_on = Some("E_terminate")
    /\ operations[1].state = "Cancelled"
    /\ operations[2].state = "Fired"
    /\ occurred["E"] = 2
    /\ invoked = <<[id |-> 2, time |-> 2 * TicksPerSecond]>>

\* C25: when a Pending operation is unregistered by its id, no other operation
\* changes and nothing is invoked; an Unregistered operation stays so and is
\* never invoked, whatever event occurs and however the clock advances.
C25_Unregistered ==
    [][\A i \in DOMAIN operations :
        LET op == operations[i]
        IN  /\ last'.op = "unregister_operation"
               => /\ invoked' = invoked
                  /\ IF last'.ret = Some(i) /\ op.state = "Pending"
                     THEN operations'[i].state = "Unregistered"
                     ELSE operations'[i] = op
            /\ op.state = "Unregistered"
               => /\ operations'[i].state = "Unregistered"
                  /\ Invocations(invoked', i) = Invocations(invoked, i)]_vars

\* two operations on E; the first was unregistered, then E occurred and only
\* the second was invoked
C25_Witness ==
    /\ component = "scheduler"
    /\ Len(operations) = 2
    /\ operations[1].event = "E" /\ operations[1].offset = 0
    /\ operations[2].event = "E" /\ operations[2].offset = 0
    /\ operations[1].state = "Unregistered"
    /\ occurred["E"] = 1
    /\ last.op = "notify" /\ last.ret = Some("E")
    /\ Invocations(invoked, 1) = 0
    /\ Invocations(invoked, 2) = 1

\* C26: the Pending operations whose trigger is the event notified are all
\* invoked by the notification, in the order in which they were registered;
\* so are the operations that become due at the same tick.
C26_RegistrationOrder ==
    [][/\ \A k \in 1..(Len(NewInvoked) - 1) : NewInvoked[k].id <= NewInvoked[k + 1].id
       /\ last'.op = "notify"
          => /\ {NewInvoked[k].id : k \in DOMAIN NewInvoked}
                = {i \in DOMAIN operations : TriggerOccurs(operations[i]) = 1}
             /\ \A k \in 1..(Len(NewInvoked) - 1) : NewInvoked[k].id < NewInvoked[k + 1].id]_vars

\* a notification of E has invoked two unlike operations, the first registered
\* first
C26_Witness ==
    /\ component = "scheduler"
    /\ Len(operations) = 2
    /\ operations[1].recurring /\ ~operations[2].recurring
    /\ occurred["E"] = 1 /\ occurred["E_terminate"] = 0
    /\ last.op = "notify" /\ last.ret = Some("E")
    /\ invoked = <<[id |-> 1, time |-> clock], [id |-> 2, time |-> clock]>>

\* the operation shows or hides a stimulus
ShowHide(op) == op.action.kind = "enable"

\* C29: after a notification of terminate_rsvp_event no show/hide operation is
\* Pending and every stimulus is invisible; a show/hide operation that is no
\* longer Pending stays so and is not invoked; an invisible stimulus becomes
\* visible only when a Pending show operation of this stimulus is invoked.
C29_Terminated ==
    [][/\ last'.op = "notify" /\ last'.ret = terminate_rsvp_event
          => /\ \A i \in DOMAIN operations' :
                    ShowHide(operations'[i]) => operations'[i].state # "Pending"
             /\ \A j \in DOMAIN stimuli' : ~stimuli'[j]
       /\ \A i \in DOMAIN operations :
             ShowHide(operations[i]) /\ operations[i].state # "Pending"
             => /\ operations'[i].state = operations[i].state
                /\ Invocations(invoked', i) = Invocations(invoked, i)
       /\ \A j \in DOMAIN stimuli :
             ~stimuli[j] /\ stimuli'[j]
             => \E k \in DOMAIN NewInvoked :
                   LET op == operations[NewInvoked[k].id]
                   IN  /\ op.state = "Pending"
                       /\ op.action = [kind |-> "enable", stim |-> j, visible |-> TRUE]]_vars

\* the first stimulus was shown, the RSVP was terminated before the stimulus
\* was to be hidden, and the clock has passed that time: the hide operation
\* was not invoked
C29_Witness ==
    /\ component = "rsvp_events"
    /\ Len(operations) >= 3
    /\ operations[2].action = [kind |-> "enable", stim |-> 1, visible |-> TRUE]
    /\ operations[2].state = "Fired"
    /\ operations[3].action = [kind |-> "enable", stim |-> 1, visible |-> FALSE]
    /\ operations[3].state \in {"Unregistered", "Cancelled"}
    /\ Invocations(invoked, 3) = 0
    /\ \E k \in DOMAIN invoked : invoked[k].id = 2 /\ clock >= invoked[k].time + duration[1]
    /\ \A j \in DOMAIN stimuli : ~stimuli[j]

\* the configurations waiting in the queue, and the one that run_trial runs
Queued == {trials[i] : i \in DOMAIN trials}
Current == IF trial_config = None THEN {} ELSE {Val(trial_config)}

\* the trials run so far that returned rc, and those of the configuration c
TrialsThat(rc) == {k \in DOMAIN history : history[k].rc = rc}
TimesThat(c, rc) == Cardinality({k \in TrialsThat(rc) : history[k].config = c})

\* the configurations that are in the queue, being run, or were run
Configs == Queued \cup Current \cup {history[k].config : k \in DOMAIN history}

\* C31: a configuration whose trial failed is put back in the queue; one whose
\* trial succeeded or was aborted has left the queue and is not run again (it
\* succeeded or was aborted once, and is waiting or being run exactly while it
\* has done neither); no configuration is lost or added. So, when run_trials
\* has returned, every configuration has succeeded once or been aborted once,
\* and nTrialsSucceeded plus the number of aborted trials is the number of
\* configurations.
C31_RequeueFailedOnly ==
    /\ [](/\ \A c \in Configs :
                /\ TimesThat(c, "Succeeded") + TimesThat(c, "Aborted") <= 1
                /\ c \in Queued \cup Current
                   <=> TimesThat(c, "Succeeded") + TimesThat(c, "Aborted") = 0
                /\ Cardinality({i \in DOMAIN trials : trials[i] = c}) <= 1
          /\ run_trials_pc = "returned"
             => /\ \A c \in Configs : TimesThat(c, "Succeeded") + TimesThat(c, "Aborted") = 1
                /\ exp_data.nTrialsSucceeded + Cardinality(TrialsThat("Aborted"))
                   = Cardinality(Configs))
    /\ [][/\ Configs' = Configs
          /\ last'.op = "run_trial" /\ last'.ret = Some("Failed")
             => Current \subseteq Queued']_vars

\* run_trials has returned after three configurations: one failed and then
\* succeeded, one was aborted, one succeeded at once
C31_Witness ==
    /\ component = "run_trials"
    /\ run_trials_pc = "returned"
    /\ Cardinality(Configs) = 3
    /\ \E c \in Configs : TimesThat(c, "Failed") = 1 /\ TimesThat(c, "Succeeded") = 1
    /\ \E c \in Configs : TimesThat(c, "Aborted") = 1
    /\ \E c \in Configs : TimesThat(c, "Failed") = 0 /\ TimesThat(c, "Succeeded") = 1

C33_Counters ==
    /\ [](/\ exp_data.nTrialsCompleted = exp_data.nTrialsSucceeded + exp_data.nTrialsFailed
          /\ trial_num = exp_data.nTrialsCompleted + 1
          /\ \A k \in 1..(Len(history) - 1) :
                history[k + 1].trial_num
                = history[k].trial_num + (IF history[k].rc = "Aborted" THEN 0 ELSE 1))
    /\ [][last'.op = "run_trial" /\ last'.ret = Some("Aborted")
          => exp_data' = exp_data /\ trial_num' = trial_num]_vars

\* the second trial was aborted and the third has its number, 2
C33_Witness ==
    /\ component = "run_trials"
    /\ Len(history) = 3
    /\ history[2].rc = "Aborted"
    /\ history[2].trial_num = 2
    /\ history[3].trial_num = 2
    /\ exp_data.nTrialsCompleted = 2

\* the events dispatched in the current trial, in order
Dispatched ==
    LET calls == SelectSeq(trace, LAMBDA made : made.call = "dispatch_event")
    IN  [k \in DOMAIN calls |-> calls[k].obj]

\* the sequences of events of a trial, by what run_trial has returned (None
\* while it has not returned)
EventsWhen(rc) ==
    IF rc = None
    THEN {<<"TRIAL_INITIALIZED">>, <<"TRIAL_INITIALIZED", "TRIAL_STARTED">>,
          <<"TRIAL_INITIALIZED", "TRIAL_STARTED", "FINGER_STARTED_MOVING">>}
    ELSE IF rc = Some("Aborted")
    THEN {<<"TRIAL_INITIALIZED", "TRIAL_STARTED">>}
    ELSE IF rc = Some("Failed")
    THEN {<<"TRIAL_INITIALIZED", "TRIAL_STARTED", "TRIAL_FAILED">>,
          <<"TRIAL_INITIALIZED", "TRIAL_STARTED", "FINGER_STARTED_MOVING", "TRIAL_FAILED">>}
    ELSE {<<"TRIAL_INITIALIZED", "TRIAL_STARTED", "FINGER_STARTED_MOVING", "TRIAL_SUCCEEDED">>}

\* C34: the events of a trial are TRIAL_INITIALIZED, TRIAL_STARTED, then
\* FINGER_STARTED_MOVING if the finger moved, then TRIAL_SUCCEEDED when
\* run_trial returns Succeeded (only after FINGER_STARTED_MOVING), TRIAL_FAILED
\* when it returns Failed, and neither when it returns Aborted or has not
\* returned.
C34_EventOrder ==
    component = "run" /\ trials_run > 0 => Dispatched \in EventsWhen(run_trial_rc)

\* the second trial of the session has succeeded
C34_Witness ==
    /\ component = "run"
    /\ trials_run = 2
    /\ run_trial_rc = Some("Succeeded")
    /\ Dispatched = <<"TRIAL_INITIALIZED", "TRIAL_STARTED", "FINGER_STARTED_MOVING",
                      "TRIAL_SUCCEEDED">>

\* C35 (as stated): whenever the pre-window sample exists, the time elapsed
\* between it and the newest sample is positive, so that no speed query
\* divides by zero.
C35_Original ==
    pre_recent_point # None /\ recent_points # <<>> => Elapsed > 0

\* C35 where calculation_interval is positive and was not changed since the
\* last reset: the elapsed time is positive
C35_PositiveInterval ==
    (/\ pre_recent_point # None /\ recent_points # <<>>
     /\ calculation_interval > 0 /\ ~interval_changed) => Elapsed > 0

\* the quotient of xspeed is a division by zero
C35_ZeroDivision ==
    /\ pre_recent_point # None /\ recent_points # <<>>
    /\ Elapsed = 0
    /\ Val(x_speed).kind = "ZeroDivisionError"

\* the movement along the validated axis between the pre-window sample and
\* the newest one
NetAlongAxis == IF axis = "x" THEN NetX ELSE NetY

\* the verdict C36 describes: TooSlowInstantaneous if min_speed is set, and
\* never TooFast
ReportedAsSlow ==
    /\ last.raised = "none"
    /\ min_speed # None => last.ret # None /\ Val(last.ret).err_code = err_too_slow
    /\ last.ret # None => Val(last.ret).err_code # err_too_fast

\* C36 (as stated): for axis x or y, an update made after the grace period
\* with the window full whose movement along the axis is negative returns
\* TooSlowInstantaneous whenever min_speed is set, and never TooFast.
C36_Original ==
    (Validated /\ axis \in {"x", "y"} /\ NetAlongAxis < 0) => ReportedAsSlow

\* C36 where the elapsed time is positive
C36_SignedWhenElapsedPositive ==
    (Validated /\ axis \in {"x", "y"} /\ NetAlongAxis < 0 /\ Val(last_interval) > 0)
        => ReportedAsSlow

\* a backward movement faster than max_speed passes when min_speed is not set
C36_FastBackwardPasses ==
    /\ Validated /\ axis \in {"x", "y"} /\ Val(last_interval) > 0
    /\ min_speed = None /\ max_speed # None
    /\ -NetAlongAxis > Val(max_speed) * units_per_mm * Val(last_interval)
    /\ last.ret = None

\* C37: an update that returns GradientViolation leaves the remembered color
\* as it was; the update after it is compared with that color, and passes and
\* is remembered when its color is at or ahead of it.
C37_NoLatch ==
    [][(component = "gradient" /\ enabled /\ last'.op = "update")
        => /\ last'.ret = GradientError => last_color' = last_color
           /\ (last.op = "update" /\ last.ret = GradientError /\ seen'.color # None)
              => /\ seen'.remembered = seen.remembered
                 /\ Delta' >= 0 => (Passed' /\ last_color' = seen'.color)]_vars

\* an update has failed and the remembered color is the one from before it
C37_Witness ==
    /\ GradientUpdated /\ last.ret = GradientError
    /\ seen.color # None /\ seen.remembered # None
    /\ last_color = seen.remembered
    /\ last_color # seen.color

\* C38: (not cyclic) an update whose color is more than
\* max_valid_back_movement behind the remembered color fails with
\* GradientViolation, whatever the samples before it; an update within the
\* tolerance leaves the remembered color as it was, so that tolerated steps do
\* not add up.
C38_ToleranceFromRemembered ==
    [][(component = "gradient" /\ enabled /\ ~cyclic /\ last'.op = "update"
        /\ seen'.color # None /\ last_color # None)
        => /\ seen'.remembered = last_color
           /\ Delta' < -max_valid_back_movement
              => last'.raised = "none" /\ last'.ret = GradientError
           /\ (Delta' < 0 /\ Delta' >= -max_valid_back_movement)
              => Passed' /\ last_color' = last_color]_vars

\* two wrong-direction steps in a row, each within the tolerance: the first
\* passed without being remembered and the second has failed
C38_Witness ==
    /\ GradientUpdated /\ ~cyclic /\ last.ret = GradientError
    /\ seen.color # None /\ seen.remembered # None /\ seen.before # None
    /\ max_valid_back_movement > 0
    /\ Abs(Val(seen.before) - Val(seen.remembered)) <= max_valid_back_movement
    /\ Abs(Val(seen.color) - Val(seen.before)) <= max_valid_back_movement
    /\ Delta < -max_valid_back_movement
    /\ (Val(seen.before) - Val(seen.remembered)) * (IF rgb_should_ascend THEN 1 ELSE -1) < 0

\* C39: with touch_directioned off, an update of a line that is not yet
\* touched touches it exactly when the sample is no farther from the line than
\* touch_distance, on either side and at the first sample after reset too; no
\* approach sign is recorded, and with a negative touch_distance the line is
\* never touched.
C39_Undirectioned ==
    /\ (component = "numberline" /\ ~touch_directioned)
          => /\ initial_mouse_dir = None
             /\ touch_distance < 0 => last_touched_coord = None
    /\ [][ (component = "numberline" /\ ~touch_directioned /\ last'.op = "update"
            /\ last_touched_coord = None)
           => /\ (last_touched_coord' # None) <=>
                    (Abs(Offset(mouse'.x, mouse'.y)) <= touch_distance)
              /\ initial_mouse_dir' = None ]_vars

\* the first sample after reset, on the far side of the line and within
\* touch_distance of it, has touched the line
C39_Witness ==
    /\ component = "numberline" /\ ~touch_directioned /\ last.op = "update"
    /\ mouse.n = 1 /\ last_touched_coord # None
    /\ Offset(mouse.x, mouse.y) < 0
    /\ initial_mouse_dir = None

\* C40: time_in_trial is the newest sample's time minus t0.  reset makes t0
\* the time it is given; the first sample pushed after a reset without a time
\* makes its own time t0; no other push and no other call changes t0.
C40_TimeInTrialFromT0 ==
    /\ component = "speed" =>
          /\ recent_points # <<>> => time0 # None
          /\ time_in_trial # None =>
                Val(time_in_trial) = Newest.t - Val(time0)
    /\ [][ component = "speed" =>
             /\ last'.op = "reset" => time0' = last'.t
             /\ last'.op = "update" =>
                   IF Pushed'
                   THEN /\ time0' = (IF time0 = None THEN last'.t ELSE time0)
                        /\ time_in_trial' = Some(Val(last'.t) - Val(time0'))
                   ELSE time0' = time0
             /\ last'.op = "set" => time0' = time0 ]_vars

\* the trial started at 0, the first sample came at 1 and the second at 2:
\* time_in_trial is 2
C40_Witness ==
    /\ component = "speed" /\ Pushed
    /\ time0 = Some(0)
    /\ Len(recent_points) = 2
    /\ recent_points[1].n = 1 /\ recent_points[1].t = 1
    /\ Newest.t = 2
    /\ Val(time_in_trial) = 2

====
